---- MODULE Spec2Model ----
(***************************************************************************)
(* MAYA learning service: the pattern detector and store of                *)
(* src/src/maya_learn/patterns.py and the concurrent metrics sampler of    *)
(* src/src/maya_learn/monitor.py.                                          *)
(*                                                                         *)
(* Conventions.                                                            *)
(*  - Python's None and an absent file are the empty sequence <<>>; a      *)
(*    present object or file is a one-element sequence <<x>>.              *)
(*  - Percentages and load averages are integers.  A confidence is kept in *)
(*    thousandths (1.0 is 1000, the step 0.1 is 100); the sampled values   *)
(*    are chosen so that the divisions by 30 and 25 are exact.             *)
(*  - A dict is a sequence of entries in insertion order, which is the     *)
(*    iteration order min() and items() see.                               *)
(*  - hashlib.md5(...).hexdigest()[:8] is kept abstract: the digest of an  *)
(*    input is the tagged input, so collisions are not modelled.           *)
(***************************************************************************)
EXTENDS Integers, Sequences, FiniteSets, TLC

VARIABLES
    \* PatternLearner
    patterns,       \* self.patterns, in insertion order
    pattern_file,   \* data_dir/patterns.json on disk
    temp_file,      \* data_dir/patterns.tmp on disk
    savePc,         \* position inside _save_patterns
    up,             \* a PatternLearner object exists (the process is alive)
    nproc,          \* number of process() calls so far
    addLog,         \* history: the _add_pattern calls of the last process()
    loadedIds,      \* history: ids read by the last _load_patterns
    fileBefore,     \* history: patterns.json when the last save began
    fileNew,        \* history: the file the last save set out to write
    saveOutcome,    \* history: "ok" or "failed" right after a save has ended
    \* two detector runs side by side
    snapA, snapB, candA, candB,
    \* one call of an operation on given arguments
    callArgs,       \* the arguments, or <<>> before the call
    callResult,     \* what the call returned or left behind
    \* SystemMonitor
    running,        \* self._running
    heap,           \* the SystemMetrics objects allocated so far, by address
    metrics_cache,  \* self._metrics_cache: None or the address of an object
    lock,           \* self._lock: "free" or its holder
    pc,             \* position of every sampler task
    tasks,          \* self._tasks
    starts,         \* number of start() calls that launched tasks
    cancelQueue,    \* cancelled tasks whose CancelledError is still to be raised
    prev_io,        \* prev_io of the network task of each start
    rpc,            \* position of the get_metrics caller
    held,           \* what the last get_metrics call returned to its caller
    cpuMerged,      \* history: a CPU sample has been merged
    afterStop,      \* history: stop() has run and no CPU sample was merged since
    \* MayaLerningService
    svcRunning,     \* self.running
    spc,            \* position of the tasks of the service: start(), the
                    \* monitor.start() task, the learning loop, the shutdown
                    \* task a signal creates
    shutdownRequested,  \* self._shutdown_requested
    loopOpen,       \* asyncio.run has not yet closed the event loop
    finalSaves,     \* history: number of learner.cleanup() calls
    \* PatternLearner._lock and two concurrent callers of the store
    storeLock,      \* self._lock of the learner: <<>> or its holder
    apc,            \* position of the process() caller inside _add_pattern
    pending,        \* the candidates process() has still to add
    settled         \* history: the populations between two complete adds

storeVars == <<patterns, pattern_file, temp_file, savePc, up, nproc, addLog,
               loadedIds, fileBefore, fileNew, saveOutcome>>
detectVars == <<snapA, snapB, candA, candB, callArgs, callResult>>
monVars == <<running, heap, metrics_cache, lock, pc, tasks, starts, cancelQueue,
             prev_io, rpc, held, cpuMerged, afterStop>>
svcVars == <<svcRunning, spc, shutdownRequested, loopOpen, finalSaves>>
lockVars == <<storeLock, apc, pending, settled>>
vars == <<storeVars, detectVars, monVars, svcVars, lockVars>>

----------------------------------------------------------------------------
(* Bounds of the model *)

\* config.learning.max_patterns of the run that is checked
MaxPatterns == 2
\* number of process() calls in one behaviour
MaxProcess == 2

(* Program constants *)

ConfOne == 1000
ConfStep == 100
CpuThreshold == 80
LoadThreshold == 4
CpuConfBase == 70
CpuConfSpan == 30
MemThreshold == 85
MemConfBase == 75
MemConfSpan == 25
NetThreshold == 1000000
NetConfidence == 800
SavePeriod == 10

Min(a, b) == IF a <= b THEN a ELSE b

----------------------------------------------------------------------------
(* Python dict helpers *)

\* d1.update(d2), {**d1, **d2}
Overlay(d1, d2) ==
    [k \in (DOMAIN d1) \cup (DOMAIN d2) |-> IF k \in DOMAIN d2 THEN d2[k] ELSE d1[k]]

HasId(pats, id) == \E i \in 1..Len(pats) : pats[i].id = id

IndexOf(pats, id) == CHOOSE i \in 1..Len(pats) : pats[i].id = id

RemoveAt(s, i) == SubSeq(s, 1, i - 1) \o SubSeq(s, i + 1, Len(s))

\* a faulty variant of OldestIndex that takes the entry inserted first
FirstInserted(pats) == 1

\* a faulty variant of OldestIndex that takes the last of the entries whose
\* updated_at is minimal
LastOldest(pats) ==
    CHOOSE i \in 1..Len(pats) :
        /\ \A j \in 1..Len(pats) : pats[i].updated_at <= pats[j].updated_at
        /\ \A j \in (i + 1)..Len(pats) : pats[j].updated_at > pats[i].updated_at

\* min(self.patterns.values(), key=lambda p: p.updated_at): the first entry, in
\* iteration order, whose updated_at is minimal
OldestIndex(pats) ==
    CHOOSE i \in 1..Len(pats) :
        /\ \A j \in 1..Len(pats) : pats[i].updated_at <= pats[j].updated_at
        /\ \A j \in 1..(i - 1) : pats[j].updated_at > pats[i].updated_at

----------------------------------------------------------------------------
(* SystemMetrics as asdict() gives it to the detector *)

LoadAvg(one) == ("1min" :> one) @@ ("5min" :> 1) @@ ("15min" :> 1)

IfaceStats(sent, recv, sent_ps, recv_ps) ==
    [bytes_sent |-> sent, bytes_recv |-> recv,
     bytes_sent_ps |-> sent_ps, bytes_recv_ps |-> recv_ps]

Metrics(ts, cpu, load, mem, net, procs) ==
    [timestamp |-> ts, cpu_percent |-> cpu, memory_percent |-> mem,
     disk_usage |-> <<>>, network_io |-> net, processes |-> procs,
     load_avg |-> LoadAvg(load), boot_time |-> 0, users |-> 1]

\* network_io values: no interface, or a busy eth0 next to a busy loopback
NetQuiet == <<>>
NetBusy == << [iface |-> "lo", stats |-> IfaceStats(9000000, 9000000, 2000000, 2000000)],
              [iface |-> "eth0", stats |-> IfaceStats(9000000, 100, 2000000, 0)] >>

----------------------------------------------------------------------------
(* PatternLearner._generate_pattern_id *)

Md5Hex8(hash_input) == <<"md5", hash_input>>

GeneratePatternId(pattern_type, data) ==
    <<pattern_type, Md5Hex8(<<pattern_type, data>>)>>

(* The three detectors: the candidates each hands to _add_pattern, in order *)

\* a faulty variant of DetectCpuPatterns that does not look at the load average
DetectCpuIgnoresLoad(metrics) ==
    IF metrics.cpu_percent > CpuThreshold
    THEN << [id |-> GeneratePatternId("high_cpu", metrics),
             pattern_type |-> "high_cpu",
             data |-> [cpu_percent |-> metrics.cpu_percent,
                       load_avg |-> metrics.load_avg,
                       processes |-> metrics.processes],
             created_at |-> metrics.timestamp,
             updated_at |-> metrics.timestamp,
             confidence |-> Min(ConfOne,
                 ((metrics.cpu_percent - CpuConfBase) * ConfOne) \div CpuConfSpan),
             metadata |-> [detection_method |-> "threshold", threshold |-> CpuThreshold]] >>
    ELSE <<>>

DetectCpuPatterns(metrics) ==
    IF metrics.cpu_percent > CpuThreshold /\ metrics.load_avg["1min"] > LoadThreshold
    THEN << [id |-> GeneratePatternId("high_cpu", metrics),
             pattern_type |-> "high_cpu",
             data |-> [cpu_percent |-> metrics.cpu_percent,
                       load_avg |-> metrics.load_avg,
                       processes |-> metrics.processes],
             created_at |-> metrics.timestamp,
             updated_at |-> metrics.timestamp,
             confidence |-> Min(ConfOne,
                 ((metrics.cpu_percent - CpuConfBase) * ConfOne) \div CpuConfSpan),
             metadata |-> [detection_method |-> "threshold", threshold |-> CpuThreshold]] >>
    ELSE <<>>

\* a faulty variant of DetectMemoryPatterns that fires at the threshold itself
DetectMemoryAtThreshold(metrics) ==
    IF metrics.memory_percent >= MemThreshold
    THEN << [id |-> GeneratePatternId("high_memory", metrics),
             pattern_type |-> "high_memory",
             data |-> [memory_percent |-> metrics.memory_percent,
                       timestamp |-> metrics.timestamp],
             created_at |-> metrics.timestamp,
             updated_at |-> metrics.timestamp,
             confidence |-> Min(ConfOne,
                 ((metrics.memory_percent - MemConfBase) * ConfOne) \div MemConfSpan),
             metadata |-> [detection_method |-> "threshold", threshold |-> MemThreshold]] >>
    ELSE <<>>

DetectMemoryPatterns(metrics) ==
    IF metrics.memory_percent > MemThreshold
    THEN << [id |-> GeneratePatternId("high_memory", metrics),
             pattern_type |-> "high_memory",
             data |-> [memory_percent |-> metrics.memory_percent,
                       timestamp |-> metrics.timestamp],
             created_at |-> metrics.timestamp,
             updated_at |-> metrics.timestamp,
             confidence |-> Min(ConfOne,
                 ((metrics.memory_percent - MemConfBase) * ConfOne) \div MemConfSpan),
             metadata |-> [detection_method |-> "threshold", threshold |-> MemThreshold]] >>
    ELSE <<>>

\* a faulty variant of NetworkCandidate that does not skip the loopback
NetworkCandidateWithLoopback(metrics, e) ==
    IF "bytes_sent_ps" \notin DOMAIN e.stats
    THEN <<>>
    ELSE IF e.stats.bytes_sent_ps > NetThreshold \/ e.stats.bytes_recv_ps > NetThreshold
    THEN << [id |-> GeneratePatternId("high_network",
                        Overlay(metrics, [interface |-> e.iface])),
             pattern_type |-> "high_network",
             data |-> [interface |-> e.iface,
                       bytes_sent_ps |-> e.stats.bytes_sent_ps,
                       bytes_recv_ps |-> e.stats.bytes_recv_ps,
                       timestamp |-> metrics.timestamp],
             created_at |-> metrics.timestamp,
             updated_at |-> metrics.timestamp,
             confidence |-> NetConfidence,
             metadata |-> [detection_method |-> "threshold", threshold |-> NetThreshold]] >>
    ELSE <<>>

\* one iteration of the loop of _detect_network_patterns
NetworkCandidate(metrics, e) ==
    IF e.iface = "lo" \/ "bytes_sent_ps" \notin DOMAIN e.stats
    THEN <<>>
    ELSE IF e.stats.bytes_sent_ps > NetThreshold \/ e.stats.bytes_recv_ps > NetThreshold
    THEN << [id |-> GeneratePatternId("high_network",
                        Overlay(metrics, [interface |-> e.iface])),
             pattern_type |-> "high_network",
             data |-> [interface |-> e.iface,
                       bytes_sent_ps |-> e.stats.bytes_sent_ps,
                       bytes_recv_ps |-> e.stats.bytes_recv_ps,
                       timestamp |-> metrics.timestamp],
             created_at |-> metrics.timestamp,
             updated_at |-> metrics.timestamp,
             confidence |-> NetConfidence,
             metadata |-> [detection_method |-> "threshold", threshold |-> NetThreshold]] >>
    ELSE <<>>

RECURSIVE NetworkCandidates(_, _)
NetworkCandidates(metrics, entries) ==
    IF entries = <<>> THEN <<>>
    ELSE NetworkCandidate(metrics, Head(entries))
             \o NetworkCandidates(metrics, Tail(entries))

DetectNetworkPatterns(metrics) == NetworkCandidates(metrics, metrics.network_io)

\* process(): CPU, then memory, then network
Candidates(metrics) ==
    DetectCpuPatterns(metrics) \o DetectMemoryPatterns(metrics)
        \o DetectNetworkPatterns(metrics)

----------------------------------------------------------------------------
(* PatternLearner._add_pattern *)

\* a faulty variant of AddPattern whose update replaces the data of the entry
AddPatternReplaceData(pats, pattern) ==
    IF HasId(pats, pattern.id)
    THEN [pats EXCEPT ![IndexOf(pats, pattern.id)] =
             [@ EXCEPT !.updated_at = pattern.updated_at,
                       !.confidence = Min(ConfOne, @ + ConfStep),
                       !.data = pattern.data]]
    ELSE LET ins == Append(pats, pattern)
         IN  IF Len(ins) > MaxPatterns THEN RemoveAt(ins, OldestIndex(ins)) ELSE ins

\* a faulty variant of AddPattern that inserts without the capacity check
AddPatternNoEvict(pats, pattern) ==
    IF HasId(pats, pattern.id)
    THEN [pats EXCEPT ![IndexOf(pats, pattern.id)] =
             [@ EXCEPT !.updated_at = pattern.updated_at,
                       !.confidence = Min(ConfOne, @ + ConfStep),
                       !.data = Overlay(@, pattern.data)]]
    ELSE Append(pats, pattern)

\* a faulty variant of AddPattern that replaces the confidence by the candidate's
AddPatternResetConf(pats, pattern) ==
    IF HasId(pats, pattern.id)
    THEN [pats EXCEPT ![IndexOf(pats, pattern.id)] =
             [@ EXCEPT !.updated_at = pattern.updated_at,
                       !.confidence = pattern.confidence,
                       !.data = Overlay(@, pattern.data)]]
    ELSE LET ins == Append(pats, pattern)
         IN  IF Len(ins) > MaxPatterns THEN RemoveAt(ins, OldestIndex(ins)) ELSE ins

AddPattern(pats, pattern) ==
    IF HasId(pats, pattern.id)
    THEN [pats EXCEPT ![IndexOf(pats, pattern.id)] =
             [@ EXCEPT !.updated_at = pattern.updated_at,
                       !.confidence = Min(ConfOne, @ + ConfStep),
                       !.data = Overlay(@, pattern.data)]]
    ELSE LET ins == Append(pats, pattern)
         IN  IF Len(ins) > MaxPatterns THEN RemoveAt(ins, OldestIndex(ins)) ELSE ins

RECURSIVE AddAll(_, _)
AddAll(pats, cands) ==
    IF cands = <<>> THEN pats
    ELSE AddAll(AddPattern(pats, Head(cands)), Tail(cands))

\* history of the _add_pattern calls made while adding cands to pats
RECURSIVE AddEvents(_, _)
AddEvents(pats, cands) ==
    IF cands = <<>> THEN <<>>
    ELSE LET c == Head(cands)
             after == AddPattern(pats, c)
             hit == HasId(pats, c.id)
         IN  << [id |-> c.id, hit |-> hit,
                 before |-> IF hit THEN pats[IndexOf(pats, c.id)].confidence ELSE 0,
                 after |-> IF HasId(after, c.id)
                           THEN after[IndexOf(after, c.id)].confidence ELSE 0,
                 sizeBefore |-> Len(pats), sizeAfter |-> Len(after)] >>
             \o AddEvents(after, Tail(cands))

----------------------------------------------------------------------------
(* The files and PatternLearner._load_patterns / _save_patterns *)

\* a faulty variant of Document that leaves the confidence out of every record
DocumentWithoutConfidence(pats) ==
    [version |-> "1.0",
     patterns |-> [i \in 1..Len(pats) |->
                     [f \in (DOMAIN pats[i]) \ {"confidence"} |-> pats[i][f]]]]

\* the JSON document of _save_patterns; its updated_at is the wall clock,
\* which the model does not keep
Document(pats) == [version |-> "1.0", patterns |-> pats]

\* a file holds the whole serialised document, or a prefix of it
WholeFile(doc) == <<[complete |-> TRUE, doc |-> doc]>>
PartialFile(doc) == <<[complete |-> FALSE, doc |-> doc]>>

\* Pattern(**pattern_data) succeeds: the required fields are there and no
\* unknown one is
RequiredFields == {"id", "pattern_type", "data", "created_at", "updated_at"}
PatternFields == RequiredFields \cup {"confidence", "metadata"}
Buildable(pattern_data) ==
    /\ RequiredFields \subseteq DOMAIN pattern_data
    /\ DOMAIN pattern_data \subseteq PatternFields

\* Pattern(**pattern_data): a field that is left out takes its default,
\* confidence 1.0 and metadata None
PatternOf(pattern_data) ==
    [f \in PatternFields |->
        IF f \in DOMAIN pattern_data THEN pattern_data[f]
        ELSE IF f = "confidence" THEN ConfOne ELSE <<>>]

\* a faulty variant of DictFromList that drops what it built when a record
\* cannot be built
RECURSIVE DictFromListAllOrNothing(_, _)
DictFromListAllOrNothing(pats, list) ==
    IF list = <<>> THEN pats
    ELSE IF ~Buildable(Head(list)) THEN <<>>
    ELSE LET p == PatternOf(Head(list))
         IN  DictFromListAllOrNothing(IF HasId(pats, p.id)
                                      THEN [pats EXCEPT ![IndexOf(pats, p.id)] = p]
                                      ELSE Append(pats, p),
                                      Tail(list))

\* self.patterns[pattern.id] = pattern for each record of the list; a record
\* that cannot be built raises and ends the loop, the handler of
\* _load_patterns logs it and the patterns built so far stay
RECURSIVE DictFromList(_, _)
DictFromList(pats, list) ==
    IF list = <<>> THEN pats
    ELSE IF ~Buildable(Head(list)) THEN pats
    ELSE LET p == PatternOf(Head(list))
         IN  DictFromList(IF HasId(pats, p.id)
                          THEN [pats EXCEPT ![IndexOf(pats, p.id)] = p]
                          ELSE Append(pats, p),
                          Tail(list))

LoadPatterns(file) ==
    IF file = <<>> THEN <<>>
    ELSE IF ~file[1].complete THEN <<>>
    ELSE DictFromList(<<>>, file[1].doc.patterns)

----------------------------------------------------------------------------
(* The pattern store: process(), cleanup(), the steps of _save_patterns, a
   crash of the process and the construction of a new PatternLearner *)

TimestampValues == {1, 2}
CpuValues == {50, 85, 100}
LoadValues == {3, 5}
MemValues == {50, 90}
NetValues == {NetQuiet, NetBusy}
ProcessValues == {100, 101}

\* what the learning loop hands to process(): None or a snapshot
StoreInputs ==
    {<<>>} \cup { <<Metrics(ts, cpu, 5, mem, net, 100)>> :
                    ts \in TimestampValues, cpu \in {50, 100},
                    mem \in MemValues, net \in NetValues }

StoreInit ==
    /\ patterns = <<>>
    /\ pattern_file = <<>>
    /\ temp_file = <<>>
    /\ savePc = "idle"
    /\ up = TRUE
    /\ nproc = 0
    /\ addLog = <<>>
    /\ loadedIds = {}
    /\ fileBefore = <<>>
    /\ fileNew = <<>>
    /\ saveOutcome = "none"

DetectIdle ==
    /\ snapA = <<>>
    /\ snapB = <<>>
    /\ candA = <<>>
    /\ candB = <<>>
    /\ callArgs = <<>>
    /\ callResult = <<>>

\* process(metrics) up to the call of _save_patterns.  asdict(None) raises
\* and the handler of process() logs it: nothing is added and nothing saved.
ProcessCall(m) ==
    /\ IF m = <<>>
       THEN /\ addLog' = <<>>
            /\ UNCHANGED <<patterns, savePc>>
       ELSE /\ patterns' = AddAll(patterns, Candidates(m[1]))
            /\ addLog' = AddEvents(patterns, Candidates(m[1]))
            /\ savePc' = IF Len(patterns') % SavePeriod = 0 THEN "open" ELSE "idle"
    /\ nproc' = nproc + 1
    /\ saveOutcome' = "none"
    /\ fileBefore' = IF savePc' = "open" THEN pattern_file ELSE fileBefore
    /\ fileNew' = IF savePc' = "open" THEN WholeFile(Document(patterns')) ELSE fileNew
    /\ UNCHANGED <<pattern_file, temp_file, up, loadedIds>>

Process ==
    /\ up
    /\ savePc = "idle"
    /\ nproc < MaxProcess
    /\ \E m \in StoreInputs : ProcessCall(m)
    /\ UNCHANGED <<detectVars, lockVars, monVars, svcVars>>

\* cleanup(): the final _save_patterns
CleanupCall ==
    /\ savePc' = "open"
    /\ saveOutcome' = "none"
    /\ fileBefore' = pattern_file
    /\ fileNew' = WholeFile(Document(patterns))
    /\ UNCHANGED <<patterns, pattern_file, temp_file, up, nproc, addLog, loadedIds>>

Cleanup ==
    /\ up
    /\ savePc = "idle"
    /\ CleanupCall
    /\ UNCHANGED <<detectVars, lockVars, monVars, svcVars>>

\* a faulty variant of SaveOpen that opens patterns.json itself for writing
SaveOpenInPlace ==
    /\ up
    /\ savePc = "open"
    /\ pattern_file' = PartialFile(Document(patterns))
    /\ fileBefore' = pattern_file
    /\ fileNew' = WholeFile(Document(patterns))
    /\ savePc' = "dump"
    /\ UNCHANGED <<saveOutcome, patterns, temp_file, up, nproc, addLog, loadedIds>>
    /\ UNCHANGED <<detectVars, lockVars, monVars, svcVars>>

\* open(temp_file, 'w'): the temporary file exists and is empty
SaveOpen ==
    /\ up
    /\ savePc = "open"
    /\ temp_file' = PartialFile(Document(patterns))
    /\ fileBefore' = pattern_file
    /\ fileNew' = WholeFile(Document(patterns))
    /\ savePc' = "dump"
    /\ UNCHANGED <<saveOutcome, patterns, pattern_file, up, nproc, addLog, loadedIds>>
    /\ UNCHANGED <<detectVars, lockVars, monVars, svcVars>>

\* json.dump(data, f) and the close of the with block
SaveDump ==
    /\ up
    /\ savePc = "dump"
    /\ temp_file' = WholeFile(Document(patterns))
    /\ savePc' = "replace"
    /\ UNCHANGED <<saveOutcome, patterns, pattern_file, up, nproc, addLog, loadedIds,
                   fileBefore, fileNew>>
    /\ UNCHANGED <<detectVars, lockVars, monVars, svcVars>>

\* temp_file.replace(self.pattern_file)
SaveReplace ==
    /\ up
    /\ savePc = "replace"
    /\ pattern_file' = temp_file
    /\ temp_file' = <<>>
    /\ savePc' = "idle"
    /\ saveOutcome' = "ok"
    /\ UNCHANGED <<patterns, up, nproc, addLog, loadedIds, fileBefore, fileNew>>
    /\ UNCHANGED <<detectVars, lockVars, monVars, svcVars>>

\* a faulty variant of SaveError whose handler discards the population
SaveErrorDiscards ==
    /\ up
    /\ savePc \in {"open", "dump", "replace"}
    /\ savePc' = "idle"
    /\ patterns' = <<>>
    /\ saveOutcome' = "failed"
    /\ UNCHANGED <<pattern_file, temp_file, up, nproc, addLog,
                   loadedIds, fileBefore, fileNew>>
    /\ UNCHANGED <<detectVars, lockVars, monVars, svcVars>>

\* open, write or rename raises: except Exception logs it, the files stay
\* as the failed call left them
SaveError ==
    /\ up
    /\ savePc \in {"open", "dump", "replace"}
    /\ savePc' = "idle"
    /\ saveOutcome' = "failed"
    /\ UNCHANGED <<patterns, pattern_file, temp_file, up, nproc, addLog,
                   loadedIds, fileBefore, fileNew>>
    /\ UNCHANGED <<detectVars, lockVars, monVars, svcVars>>

\* the process dies: memory is lost, the files stay
Crash ==
    /\ up
    /\ up' = FALSE
    /\ patterns' = <<>>
    /\ savePc' = "idle"
    /\ addLog' = <<>>
    /\ loadedIds' = {}
    /\ saveOutcome' = "none"
    /\ UNCHANGED <<pattern_file, temp_file, nproc, fileBefore, fileNew>>
    /\ UNCHANGED <<detectVars, lockVars, monVars, svcVars>>

\* PatternLearner.__init__: empty population, then _load_patterns
Construct ==
    /\ ~up
    /\ up' = TRUE
    /\ patterns' = LoadPatterns(pattern_file)
    /\ loadedIds' = { patterns'[i].id : i \in 1..Len(patterns') }
    /\ UNCHANGED <<saveOutcome, pattern_file, temp_file, savePc, nproc, addLog, fileBefore, fileNew>>
    /\ UNCHANGED <<detectVars, lockVars, monVars, svcVars>>

StoreNext ==
    \/ Process
    \/ Cleanup
    \/ SaveOpen
    \/ SaveDump
    \/ SaveReplace
    \/ SaveError
    \/ Crash
    \/ Construct

----------------------------------------------------------------------------
(* SystemMonitor: the shared snapshot, its lock and the five sampler tasks.

   A task is <<kind, n>>: the collector of that kind launched by the n-th
   start().  Its positions: "unborn" (not created), "new" (created, not yet
   run), "sleep" (at its asyncio.sleep), "lock" (at the await of
   self._lock.acquire), "cs" (inside async with self._lock), "backoff" (at the
   asyncio.sleep(5) of the except Exception handler), "cancelled" (cancel() was
   called, the CancelledError is still to be raised in it, at an await inside
   the try block or before the first statement), "interrupted" (the same, at
   the sleep of the handler), "crashed" (ended by an exception) and "done".  The value a collector samples before it takes the lock is drawn at
   the merge: nothing reads it in between. *)

Kinds == {"cpu", "memory", "disk", "network", "system"}

\* the task list of start()
StartOrder == <<"cpu", "memory", "disk", "network", "system">>

\* number of start() calls that launch tasks in one behaviour
MaxStarts == 2

Gens == 1..MaxStarts
Tasks == Kinds \X Gens

\* the caller of get_metrics, as a holder of the lock
Reader == <<"reader", 0>>

\* config.monitoring.network_interval
NetworkInterval == 15

CpuSamples == {50, 85}
MemSamples == {90}
DiskSamples == { << [mount |-> "/", percent |-> 40] >> }
ProcSamples == {100}
\* psutil.net_io_counters(pernic=True): cumulative counters per interface
IoLow  == << [iface |-> "eth0", bytes_sent |-> 0, bytes_recv |-> 0] >>
IoHigh == << [iface |-> "eth0", bytes_sent |-> 30000000, bytes_recv |-> 0] >>
CounterSamples == {IoLow, IoHigh}

MetricFields == {"timestamp", "cpu_percent", "memory_percent", "disk_usage",
                 "network_io", "processes", "load_avg", "boot_time", "users"}

\* a faulty variant of NewSystemMetrics that fills in the CPU fields only
CpuFieldsOnly(now, cpu, load) ==
    [timestamp |-> now, cpu_percent |-> cpu, load_avg |-> LoadAvg(load)]

\* the SystemMetrics(...) the CPU collector builds on its first merge
NewSystemMetrics(now, cpu, load) ==
    [timestamp |-> now, cpu_percent |-> cpu, memory_percent |-> 0,
     disk_usage |-> <<>>, network_io |-> <<>>, processes |-> 0,
     load_avg |-> LoadAvg(load), boot_time |-> 0, users |-> 1]

HasIface(io, iface) == \E i \in 1..Len(io) : io[i].iface = iface
IfaceEntry(io, iface) == io[CHOOSE i \in 1..Len(io) : io[i].iface = iface]

\* a faulty variant of NetIo that takes 0 as the previous counter of an
\* interface without a previous sample
RECURSIVE NetIoZeroBaseline(_, _)
NetIoZeroBaseline(prev, curr) ==
    IF curr = <<>> THEN <<>>
    ELSE LET c == Head(curr)
             b == IF HasIface(prev, c.iface) THEN IfaceEntry(prev, c.iface)
                  ELSE [iface |-> c.iface, bytes_sent |-> 0, bytes_recv |-> 0]
         IN  << [iface |-> c.iface,
                 stats |-> IfaceStats(c.bytes_sent, c.bytes_recv,
                     (c.bytes_sent - b.bytes_sent) \div NetworkInterval,
                     (c.bytes_recv - b.bytes_recv) \div NetworkInterval)] >>
             \o NetIoZeroBaseline(prev, Tail(curr))

\* the net_io dict of one network tick: interfaces without a previous sample
\* are skipped, the rates are the counter differences over the interval
RECURSIVE NetIo(_, _)
NetIo(prev, curr) ==
    IF curr = <<>> THEN <<>>
    ELSE LET c == Head(curr)
         IN  (IF HasIface(prev, c.iface)
              THEN << [iface |-> c.iface,
                       stats |-> IfaceStats(c.bytes_sent, c.bytes_recv,
                           (c.bytes_sent - IfaceEntry(prev, c.iface).bytes_sent)
                               \div NetworkInterval,
                           (c.bytes_recv - IfaceEntry(prev, c.iface).bytes_recv)
                               \div NetworkInterval)] >>
              ELSE <<>>)
             \o NetIo(prev, Tail(curr))

MonitorInit ==
    /\ running = FALSE
    /\ heap = <<>>
    /\ metrics_cache = <<>>
    /\ lock = <<>>
    /\ pc = [t \in Tasks |-> "unborn"]
    /\ tasks = {}
    /\ starts = 0
    /\ cancelQueue = <<>>
    /\ prev_io = [g \in Gens |-> <<>>]
    /\ rpc = "idle"
    /\ held = [called |-> FALSE, ref |-> <<>>]
    /\ cpuMerged = FALSE
    /\ afterStop = FALSE

\* MayaLerningService.__init__, before asyncio.run(service.start())
ServiceInit ==
    /\ svcRunning = FALSE
    /\ spc = [main |-> "init", mon |-> "none", learn |-> "none", sig |-> "none"]
    /\ shutdownRequested = FALSE
    /\ loopOpen = TRUE
    /\ finalSaves = 0

\* PatternLearner.__init__: the lock is free and nobody is adding
StoreLockInit ==
    /\ storeLock = <<>>
    /\ apc = "idle"
    /\ pending = <<>>
    /\ settled = {<<>>}

Init == StoreInit /\ DetectIdle /\ MonitorInit /\ ServiceInit /\ StoreLockInit

(* The critical sections *)

\* a faulty variant of LockFree that lets a task in although the lock is held
LockIgnored == TRUE

\* asyncio.Lock: acquire() returns only when nobody holds the lock
LockFree == lock = <<>>

\* a faulty variant of CpuMerge that refreshes the timestamp at every merge
CpuMergeStamps(now, cpu, load) ==
    /\ IF metrics_cache = <<>>
       THEN /\ heap' = Append(heap, NewSystemMetrics(now, cpu, load))
            /\ metrics_cache' = <<Len(heap) + 1>>
       ELSE /\ heap' = [heap EXCEPT ![metrics_cache[1]] =
                           [@ EXCEPT !.cpu_percent = cpu, !.load_avg = LoadAvg(load),
                                     !.timestamp = now]]
            /\ UNCHANGED metrics_cache
    /\ cpuMerged' = TRUE
    /\ afterStop' = FALSE

\* a faulty variant of CpuMerge that only updates a snapshot that is there
CpuMergeUpdatesOnly(now, cpu, load) ==
    /\ IF metrics_cache = <<>>
       THEN UNCHANGED <<heap, metrics_cache>>
       ELSE /\ heap' = [heap EXCEPT ![metrics_cache[1]] =
                           [@ EXCEPT !.cpu_percent = cpu, !.load_avg = LoadAvg(load)]]
            /\ UNCHANGED metrics_cache
    /\ cpuMerged' = TRUE
    /\ afterStop' = FALSE

CpuMerge(now, cpu, load) ==
    /\ IF metrics_cache = <<>>
       THEN /\ heap' = Append(heap, NewSystemMetrics(now, cpu, load))
            /\ metrics_cache' = <<Len(heap) + 1>>
       ELSE /\ heap' = [heap EXCEPT ![metrics_cache[1]] =
                           [@ EXCEPT !.cpu_percent = cpu, !.load_avg = LoadAvg(load)]]
            /\ UNCHANGED metrics_cache
    /\ cpuMerged' = TRUE
    /\ afterStop' = FALSE

\* a faulty variant of MemoryMerge that allocates the snapshot when there is none
MemoryMergeCreates(mem) ==
    /\ IF metrics_cache # <<>>
       THEN /\ heap' = [heap EXCEPT ![metrics_cache[1]].memory_percent = mem]
            /\ UNCHANGED metrics_cache
       ELSE /\ heap' = Append(heap, [NewSystemMetrics(1, 0, 0) EXCEPT !.memory_percent = mem])
            /\ metrics_cache' = <<Len(heap) + 1>>
    /\ UNCHANGED <<cpuMerged, afterStop>>

MemoryMerge(mem) ==
    /\ IF metrics_cache # <<>>
       THEN heap' = [heap EXCEPT ![metrics_cache[1]].memory_percent = mem]
       ELSE UNCHANGED heap
    /\ UNCHANGED <<metrics_cache, cpuMerged, afterStop>>

DiskMerge(disk_usage) ==
    /\ IF metrics_cache # <<>>
       THEN heap' = [heap EXCEPT ![metrics_cache[1]].disk_usage = disk_usage]
       ELSE UNCHANGED heap
    /\ UNCHANGED <<metrics_cache, cpuMerged, afterStop>>

NetworkMerge(net_io) ==
    /\ IF metrics_cache # <<>>
       THEN heap' = [heap EXCEPT ![metrics_cache[1]].network_io = net_io]
       ELSE UNCHANGED heap
    /\ UNCHANGED <<metrics_cache, cpuMerged, afterStop>>

SystemMerge(now, procs) ==
    /\ IF metrics_cache # <<>>
       THEN heap' = [heap EXCEPT ![metrics_cache[1]] =
                        [@ EXCEPT !.timestamp = now, !.processes = procs,
                                  !.boot_time = 0, !.users = 1]]
       ELSE UNCHANGED heap
    /\ UNCHANGED <<metrics_cache, cpuMerged, afterStop>>

\* what psutil and the clock return to the collectors; the steady machine
\* returns the same values at every call
AllSamples == [now |-> TimestampValues, cpu |-> CpuSamples, io |-> CounterSamples]
SteadySamples == [now |-> {1}, cpu |-> {50}, io |-> {IoLow}]

\* one collector's sample, drawn from S, and its merge under the lock
MergeFrom(t, S) ==
    \/ /\ t[1] = "cpu"
       /\ \E now \in S.now, cpu \in S.cpu : CpuMerge(now, cpu, 5)
       /\ UNCHANGED prev_io
    \/ /\ t[1] = "memory"
       /\ \E mem \in MemSamples : MemoryMerge(mem)
       /\ UNCHANGED prev_io
    \/ /\ t[1] = "disk"
       /\ \E d \in DiskSamples : DiskMerge(d)
       /\ UNCHANGED prev_io
    \/ /\ t[1] = "network"
       /\ \E curr_io \in S.io :
            /\ NetworkMerge(NetIo(prev_io[t[2]][1], curr_io))
            /\ prev_io' = [prev_io EXCEPT ![t[2]] = <<curr_io>>]
    \/ /\ t[1] = "system"
       /\ \E now \in S.now, procs \in ProcSamples : SystemMerge(now, procs)
       /\ UNCHANGED prev_io

Merge(t) == MergeFrom(t, AllSamples)

(* start(), stop() and the delivery of a cancellation *)

\* a faulty variant of StartCall without the test of self._running
StartCallAlways ==
    /\ starts < MaxStarts
    /\ running' = TRUE
    /\ starts' = starts + 1
    /\ pc' = [t \in Tasks |-> IF t[2] = starts + 1 THEN "new" ELSE pc[t]]
    /\ tasks' = { <<k, starts + 1>> : k \in Kinds }
    /\ UNCHANGED <<heap, metrics_cache, lock, cancelQueue, prev_io, rpc, held,
                   cpuMerged, afterStop>>

StartCall ==
    /\ ~running
    /\ starts < MaxStarts
    /\ running' = TRUE
    /\ starts' = starts + 1
    /\ pc' = [t \in Tasks |-> IF t[2] = starts + 1 THEN "new" ELSE pc[t]]
    /\ tasks' = { <<k, starts + 1>> : k \in Kinds }
    /\ UNCHANGED <<heap, metrics_cache, lock, cancelQueue, prev_io, rpc, held,
                   cpuMerged, afterStop>>

Start ==
    /\ StartCall
    /\ UNCHANGED <<storeVars, detectVars, lockVars, svcVars>>

\* the tasks of self._tasks that cancel() affects, in the order of the task list
RECURSIVE CancelList(_)
CancelList(order) ==
    IF order = <<>> THEN <<>>
    ELSE (IF <<Head(order), starts>> \in tasks
             /\ pc[<<Head(order), starts>>] \notin {"cancelled", "interrupted", "done"}
          THEN << <<Head(order), starts>> >> ELSE <<>>)
         \o CancelList(Tail(order))

\* stop(): clears the flag and cancels every task of self._tasks, then returns
StopCall ==
    /\ running' = FALSE
    /\ pc' = [t \in Tasks |->
                IF t \in tasks /\ pc[t] \notin {"cancelled", "interrupted", "done"}
                THEN (IF pc[t] = "backoff" THEN "interrupted" ELSE "cancelled")
                ELSE pc[t]]
    /\ cancelQueue' = cancelQueue \o CancelList(StartOrder)
    /\ afterStop' = TRUE
    /\ UNCHANGED <<heap, metrics_cache, lock, tasks, starts, prev_io, rpc, held,
                   cpuMerged>>

Stop ==
    /\ StopCall
    /\ UNCHANGED <<storeVars, detectVars, lockVars, svcVars>>

\* a faulty variant of Finish in which a CancelledError raised at the sleep of
\* the except Exception handler is caught by that handler again: the task
\* logs it and sleeps once more
FinishSwallowed ==
    /\ cancelQueue # <<>>
    /\ pc' = [pc EXCEPT ![Head(cancelQueue)] =
                  IF @ = "interrupted" THEN "backoff" ELSE "done"]
    /\ cancelQueue' = Tail(cancelQueue)
    /\ UNCHANGED <<running, heap, metrics_cache, lock, tasks, starts, prev_io, rpc,
                   held, cpuMerged, afterStop>>
    /\ UNCHANGED <<storeVars, detectVars, lockVars, svcVars>>

\* a faulty variant of Finish in which the cancelled memory collector merges
\* one more sample before it ends
FinishAfterMerge ==
    /\ cancelQueue # <<>>
    /\ pc' = [pc EXCEPT ![Head(cancelQueue)] = "done"]
    /\ tasks' = tasks \ {Head(cancelQueue)}
    /\ cancelQueue' = Tail(cancelQueue)
    /\ prev_io' = IF Head(cancelQueue)[1] = "network"
                  THEN [prev_io EXCEPT ![Head(cancelQueue)[2]] = <<>>]
                  ELSE prev_io
    /\ IF Head(cancelQueue)[1] = "memory"
       THEN \E mem \in MemSamples : MemoryMerge(mem)
       ELSE UNCHANGED <<heap, metrics_cache, cpuMerged, afterStop>>
    /\ UNCHANGED <<running, lock, starts, rpc, held>>
    /\ UNCHANGED <<storeVars, detectVars, lockVars, svcVars>>

\* a cancelled task runs again: CancelledError is raised at its await (or
\* before its first statement), it leaves its loop (by the break of except
\* CancelledError, or, raised at the sleep of the except Exception handler, by
\* propagating out of the coroutine) and its locals are gone, and the done
\* callback discards it from the set it was created in.  The
\* event loop runs cancelled tasks in the order they were cancelled.
Finish ==
    /\ cancelQueue # <<>>
    /\ pc' = [pc EXCEPT ![Head(cancelQueue)] = "done"]
    /\ tasks' = tasks \ {Head(cancelQueue)}
    /\ cancelQueue' = Tail(cancelQueue)
    /\ prev_io' = IF Head(cancelQueue)[1] = "network"
                  THEN [prev_io EXCEPT ![Head(cancelQueue)[2]] = <<>>]
                  ELSE prev_io
    /\ UNCHANGED <<running, heap, metrics_cache, lock, starts, rpc, held,
                   cpuMerged, afterStop>>
    /\ UNCHANGED <<storeVars, detectVars, lockVars, svcVars>>

(* The tasks as the event loop runs them: a task that wakes up runs to its
   next asyncio.sleep, and the lock it takes on the way is free *)

\* The event loop runs its ready handles in the order they were scheduled:
\* the wake-ups cancel() scheduled run before a timer that expires later and
\* before the first step of a task created later.
LoopIdle == cancelQueue = <<>>

TickFrom(t, S) ==
    /\ pc[t] \in {"new", "sleep"}
    /\ LoopIdle
    /\ LockFree
    /\ IF ~running
       THEN /\ pc' = [pc EXCEPT ![t] = "done"]
            /\ tasks' = tasks \ {t}
            /\ UNCHANGED <<heap, metrics_cache, prev_io, cpuMerged, afterStop>>
       ELSE IF t[1] = "network" /\ pc[t] = "new"
       THEN /\ \E io \in S.io : prev_io' = [prev_io EXCEPT ![t[2]] = <<io>>]
            /\ pc' = [pc EXCEPT ![t] = "sleep"]
            /\ UNCHANGED <<heap, metrics_cache, tasks, cpuMerged, afterStop>>
       ELSE /\ MergeFrom(t, S)
            /\ pc' = [pc EXCEPT ![t] = "sleep"]
            /\ UNCHANGED tasks
    /\ UNCHANGED <<running, lock, starts, cancelQueue, rpc, held>>
    /\ UNCHANGED <<storeVars, detectVars, lockVars, svcVars>>

Tick(t) == TickFrom(t, AllSamples)

\* get_metrics(): returns self._metrics_cache itself
GetMetrics ==
    /\ rpc = "idle"
    /\ LockFree
    /\ held' = [called |-> TRUE, ref |-> metrics_cache]
    /\ UNCHANGED <<running, heap, metrics_cache, lock, pc, tasks, starts, cancelQueue,
                   prev_io, rpc, cpuMerged, afterStop>>
    /\ UNCHANGED <<storeVars, detectVars, lockVars, svcVars>>

MonitorNext ==
    \/ Start
    \/ Stop
    \/ Finish
    \/ \E t \in Tasks : Tick(t)
    \/ GetMetrics

SpecMonitor == Init /\ [][MonitorNext]_vars

(* The same tasks with every await of the lock as a scheduling point: a task
   may be suspended before it acquires the lock and before it releases it *)

LoopTop(t) ==
    /\ pc[t] \in {"new", "sleep"}
    /\ IF ~running
       THEN /\ pc' = [pc EXCEPT ![t] = "done"]
            /\ tasks' = tasks \ {t}
            /\ UNCHANGED prev_io
       ELSE IF t[1] = "network" /\ pc[t] = "new"
       THEN /\ \E io \in CounterSamples : prev_io' = [prev_io EXCEPT ![t[2]] = <<io>>]
            /\ pc' = [pc EXCEPT ![t] = "sleep"]
            /\ UNCHANGED tasks
       ELSE /\ pc' = [pc EXCEPT ![t] = "lock"]
            /\ UNCHANGED <<tasks, prev_io>>
    /\ UNCHANGED <<running, heap, metrics_cache, lock, starts, cancelQueue, rpc, held,
                   cpuMerged, afterStop>>
    /\ UNCHANGED <<storeVars, detectVars, lockVars, svcVars>>

\* the psutil calls a collector of the given kind makes inside its
\* async with self._lock block, by whether the snapshot exists
QueriesUnderLock(kind, present) ==
    CASE kind = "cpu" -> IF present THEN {} ELSE {"boot_time", "users"}
      [] kind = "system" -> IF present THEN {"pids", "boot_time", "users"} ELSE {}
      [] OTHER -> {}

Acquire(t) ==
    /\ pc[t] = "lock"
    /\ LockFree
    /\ lock' = <<t>>
    /\ Merge(t)
    /\ pc' = [pc EXCEPT ![t] = "cs"]
    /\ UNCHANGED <<running, tasks, starts, cancelQueue, rpc, held>>
    /\ UNCHANGED <<storeVars, detectVars, lockVars, svcVars>>

Release(t) ==
    /\ pc[t] = "cs"
    /\ lock' = <<>>
    /\ pc' = [pc EXCEPT ![t] = "sleep"]
    /\ UNCHANGED <<running, heap, metrics_cache, tasks, starts, cancelQueue, prev_io,
                   rpc, held, cpuMerged, afterStop>>
    /\ UNCHANGED <<storeVars, detectVars, lockVars, svcVars>>

ReaderCall ==
    /\ rpc = "idle"
    /\ rpc' = "lock"
    /\ UNCHANGED <<running, heap, metrics_cache, lock, pc, tasks, starts, cancelQueue,
                   prev_io, held, cpuMerged, afterStop>>
    /\ UNCHANGED <<storeVars, detectVars, lockVars, svcVars>>

ReaderAcquire ==
    /\ rpc = "lock"
    /\ LockFree
    /\ lock' = <<Reader>>
    /\ held' = [called |-> TRUE, ref |-> metrics_cache]
    /\ rpc' = "cs"
    /\ UNCHANGED <<running, heap, metrics_cache, pc, tasks, starts, cancelQueue,
                   prev_io, cpuMerged, afterStop>>
    /\ UNCHANGED <<storeVars, detectVars, lockVars, svcVars>>

ReaderRelease ==
    /\ rpc = "cs"
    /\ lock' = <<>>
    /\ rpc' = "idle"
    /\ UNCHANGED <<running, heap, metrics_cache, pc, tasks, starts, cancelQueue,
                   prev_io, held, cpuMerged, afterStop>>
    /\ UNCHANGED <<storeVars, detectVars, lockVars, svcVars>>

LockNext ==
    \/ Start
    \/ \E t \in Tasks : LoopTop(t)
    \/ \E t \in Tasks : Acquire(t)
    \/ \E t \in Tasks : Release(t)
    \/ ReaderCall
    \/ ReaderAcquire
    \/ ReaderRelease

SpecLock == Init /\ [][LockNext]_vars

----------------------------------------------------------------------------
(* Collection failures.  A psutil call of a collector raises: inside the try
   block the handler logs the error and the task sleeps 5 seconds ("backoff");
   outside of it the exception ends the task ("crashed").  The calls that do
   not raise return the values of the steady machine. *)

\* a faulty variant of BaselineRaises that retries the baseline read in the loop
BaselineRetried(t) == pc' = [pc EXCEPT ![t] = "backoff"] /\ UNCHANGED tasks

\* prev_io = psutil.net_io_counters(pernic=True) raises before the while loop
\* and its try block are entered: the coroutine ends with the exception and
\* the done callback discards the task
BaselineRaises(t) == pc' = [pc EXCEPT ![t] = "crashed"] /\ tasks' = tasks \ {t}

BaselineFail(t) ==
    /\ LoopIdle
    /\ t[1] = "network"
    /\ pc[t] = "new"
    /\ BaselineRaises(t)
    /\ UNCHANGED <<running, heap, metrics_cache, lock, starts, cancelQueue, prev_io,
                   rpc, held, cpuMerged, afterStop>>
    /\ UNCHANGED <<storeVars, detectVars, lockVars, svcVars>>

\* a tick whose collection call raises before the lock is taken: cpu_percent,
\* getloadavg, virtual_memory, disk_partitions, the network counters read after
\* the interval sleep; also boot_time and users in the SystemMetrics(...) call
\* of the first CPU merge, which leaves the snapshot None.  Nothing is merged.
CollectFail(t) ==
    /\ LoopIdle
    /\ running
    /\ LockFree
    /\ \/ t[1] \in {"cpu", "memory", "disk"} /\ pc[t] \in {"new", "sleep", "backoff"}
       \/ t[1] = "network" /\ pc[t] = "sleep"
    /\ pc' = [pc EXCEPT ![t] = "backoff"]
    /\ UNCHANGED <<running, heap, metrics_cache, lock, tasks, starts, cancelQueue,
                   prev_io, rpc, held, cpuMerged, afterStop>>
    /\ UNCHANGED <<storeVars, detectVars, lockVars, svcVars>>

\* a tick of the system collector whose psutil call raises inside the lock:
\* the fields assigned before the failing call keep their new values, the
\* lock is released by the async with block
SystemFail(t) ==
    /\ LoopIdle
    /\ running
    /\ LockFree
    /\ t[1] = "system"
    /\ pc[t] \in {"new", "sleep", "backoff"}
    /\ metrics_cache # <<>>
    /\ \E now \in SteadySamples.now, procs \in ProcSamples :
         \/ heap' = [heap EXCEPT ![metrics_cache[1]].timestamp = now]
         \/ heap' = [heap EXCEPT ![metrics_cache[1]] =
                        [@ EXCEPT !.timestamp = now, !.processes = procs]]
    /\ pc' = [pc EXCEPT ![t] = "backoff"]
    /\ UNCHANGED <<running, metrics_cache, lock, tasks, starts, cancelQueue,
                   prev_io, rpc, held, cpuMerged, afterStop>>
    /\ UNCHANGED <<storeVars, detectVars, lockVars, svcVars>>

\* the task wakes from asyncio.sleep(5) in the handler and is back at the
\* while test: the next tick, which for the network collector starts with its
\* interval sleep
BackoffTick(t) ==
    /\ LoopIdle
    /\ pc[t] = "backoff"
    /\ LockFree
    /\ IF ~running
       THEN /\ pc' = [pc EXCEPT ![t] = "done"]
            /\ tasks' = tasks \ {t}
            /\ UNCHANGED <<heap, metrics_cache, prev_io, cpuMerged, afterStop>>
       ELSE IF t[1] = "network"
       THEN /\ pc' = [pc EXCEPT ![t] = "sleep"]
            /\ UNCHANGED <<heap, metrics_cache, tasks, prev_io, cpuMerged, afterStop>>
       ELSE /\ MergeFrom(t, SteadySamples)
            /\ pc' = [pc EXCEPT ![t] = "sleep"]
            /\ UNCHANGED tasks
    /\ UNCHANGED <<running, lock, starts, cancelQueue, rpc, held>>
    /\ UNCHANGED <<storeVars, detectVars, lockVars, svcVars>>

\* a tick on the steady machine
SteadyTick(t) == TickFrom(t, SteadySamples)

FaultNext ==
    \/ Start
    \/ Stop
    \/ Finish
    \/ \E t \in Tasks : SteadyTick(t)
    \/ \E t \in Tasks : BaselineFail(t)
    \/ \E t \in Tasks : CollectFail(t)
    \/ \E t \in Tasks : SystemFail(t)
    \/ \E t \in Tasks : BackoffTick(t)

SpecFault == Init /\ [][FaultNext]_vars

\* the event loop runs every handle of its ready queue: a cancelled task is
\* resumed with its CancelledError
SpecFaultFair == SpecFault /\ WF_vars(Finish)

\* a tick of collector t whose psutil calls return.  The network collector
\* coming out of the handler's sleep has collected nothing yet: its tick
\* begins with the interval sleep.
CollectOk(t) == SteadyTick(t) \/ (t[1] # "network" /\ BackoffTick(t))

\* the timers of the sleeps expire and the event loop resumes their tasks,
\* and the psutil calls of a collector that keeps trying do not raise for ever
\* the tasks of the first start()
FirstRun == { t \in Tasks : t[2] = 1 }

\* the start() of a monitor that was never started
FirstStart == starts = 0 /\ Start

\* one run of the monitor, from its start() to a stop() that may never come
AliveNext ==
    \/ FirstStart
    \/ Stop
    \/ Finish
    \/ \E t \in FirstRun : SteadyTick(t)
    \/ \E t \in FirstRun : BaselineFail(t)
    \/ \E t \in FirstRun : CollectFail(t)
    \/ \E t \in FirstRun : SystemFail(t)
    \/ \E t \in FirstRun : BackoffTick(t)

SpecAlive ==
    /\ Init /\ [][AliveNext]_vars
    /\ WF_vars(Finish)
    /\ \A t \in FirstRun : WF_vars(BackoffTick(t)) /\ SF_vars(CollectOk(t))

----------------------------------------------------------------------------
(* MayaLerningService under asyncio.run(service.start()).

   The tasks of the service: "main" runs start(), "mon" runs monitor.start(),
   "learn" runs learning_loop(), "sig" runs the shutdown() a signal handler
   creates.  Positions: "init"/"none" (not created), "new" (created, not yet
   run), "loop" (start() at its asyncio.sleep(1)), "sleep" (the learning loop
   at its sleep), "ready" (the shutdown task before its first step), "gather"
   (shutdown() at await asyncio.gather), "persist" (cleanup() inside
   learner.cleanup(), which has no await), "cancelled", "done" and "killed"
   (cancelled by asyncio.run after start() has returned).  The samplers see
   the steady machine. *)

\* the event loop is between two handles: no coroutine is in the middle of
\* code without an await
LoopFree ==
    /\ loopOpen
    /\ savePc = "idle"
    /\ spc.main # "persist"
    /\ spc.sig # "persist"

\* the ready queue of the event loop is first in, first out: the tasks that
\* start() creates take their first step before anything scheduled later
FirstStepsTaken == spc.mon # "new" /\ spc.learn # "new"

\* start() up to its first asyncio.sleep(1)
SvcStart ==
    /\ spc.main = "init"
    /\ svcRunning' = TRUE
    /\ spc' = [spc EXCEPT !.main = "loop", !.mon = "new", !.learn = "new"]
    /\ UNCHANGED <<shutdownRequested, loopOpen, finalSaves>>
    /\ UNCHANGED <<storeVars, detectVars, lockVars, monVars>>

\* the task of monitor.start(): it runs to its end at its first step
MonitorTaskRun ==
    /\ LoopFree
    /\ spc.mon = "new"
    /\ StartCall
    /\ spc' = [spc EXCEPT !.mon = "done"]
    /\ UNCHANGED <<svcRunning, shutdownRequested, loopOpen, finalSaves>>
    /\ UNCHANGED <<storeVars, detectVars, lockVars>>

\* what get_metrics() gives the learning loop
Snapshot == IF metrics_cache = <<>> THEN <<>> ELSE <<heap[metrics_cache[1]]>>

\* one iteration of learning_loop: the while test, get_metrics(), process()
LearnStep ==
    /\ LoopFree
    /\ spc.learn \in {"new", "sleep"}
    /\ IF ~svcRunning
       THEN /\ spc' = [spc EXCEPT !.learn = "done"]
            /\ UNCHANGED <<storeVars, held>>
       ELSE /\ nproc < MaxProcess
            /\ held' = [called |-> TRUE, ref |-> metrics_cache]
            /\ ProcessCall(Snapshot)
            /\ spc' = [spc EXCEPT !.learn = "sleep"]
    /\ UNCHANGED <<running, heap, metrics_cache, lock, pc, tasks, starts, cancelQueue,
                   prev_io, rpc, cpuMerged, afterStop>>
    /\ UNCHANGED <<svcRunning, shutdownRequested, loopOpen, finalSaves>>
    /\ UNCHANGED <<detectVars, lockVars>>

\* handle_signal: the first SIGINT or SIGTERM creates a task for shutdown();
\* cleanup() puts the original handlers back
SvcSignal ==
    /\ loopOpen
    /\ spc.main \in {"loop", "gather"}
    /\ ~shutdownRequested
    /\ finalSaves = 0
    /\ shutdownRequested' = TRUE
    /\ spc' = [spc EXCEPT !.sig = "ready"]
    /\ UNCHANGED <<svcRunning, loopOpen, finalSaves>>
    /\ UNCHANGED <<storeVars, detectVars, lockVars, monVars>>

\* shutdown() of task r up to await asyncio.gather: the flag is cleared and
\* the tasks of self.tasks that are not done are cancelled
ShutdownCall(r) ==
    /\ svcRunning' = FALSE
    /\ spc' = [spc EXCEPT ![r] = "gather",
                          !.learn = IF @ \in {"new", "sleep"} THEN "cancelled" ELSE @,
                          !.mon = IF @ = "new" THEN "cancelled" ELSE @]

\* start() wakes from asyncio.sleep(1) and finds self.running false: it
\* leaves the loop, the shutdown() of its finally block returns at once
MainWake ==
    /\ LoopFree
    /\ spc.main = "loop"
    /\ ~svcRunning
    /\ spc' = [spc EXCEPT !.main = "done"]
    /\ UNCHANGED <<svcRunning, shutdownRequested, loopOpen, finalSaves>>
    /\ UNCHANGED <<storeVars, detectVars, lockVars, monVars>>

\* start() is cancelled, or an exception is raised in its loop: the handler
\* logs it and the finally block awaits shutdown()
MainInterrupt ==
    /\ LoopFree
    /\ FirstStepsTaken
    /\ spc.main = "loop"
    /\ IF svcRunning
       THEN ShutdownCall("main")
       ELSE /\ spc' = [spc EXCEPT !.main = "done"]
            /\ UNCHANGED svcRunning
    /\ UNCHANGED <<shutdownRequested, loopOpen, finalSaves>>
    /\ UNCHANGED <<storeVars, detectVars, lockVars, monVars>>

\* the first step of the shutdown task of a signal
SignalShutdown ==
    /\ LoopFree
    /\ FirstStepsTaken
    /\ spc.sig = "ready"
    /\ IF svcRunning
       THEN ShutdownCall("sig")
       ELSE /\ spc' = [spc EXCEPT !.sig = "done"]
            /\ UNCHANGED svcRunning
    /\ UNCHANGED <<shutdownRequested, loopOpen, finalSaves>>
    /\ UNCHANGED <<storeVars, detectVars, lockVars, monVars>>

\* a cancelled task of the service receives its CancelledError and ends
SvcDeliver(k) ==
    /\ LoopFree
    /\ spc[k] = "cancelled"
    /\ spc' = [spc EXCEPT ![k] = "done"]
    /\ UNCHANGED <<svcRunning, shutdownRequested, loopOpen, finalSaves>>
    /\ UNCHANGED <<storeVars, detectVars, lockVars, monVars>>

\* asyncio.gather(*task_coros) is done when every cancelled task has ended
GatherReturns == spc.learn = "done" /\ spc.mon = "done"

\* a faulty variant of FinalPersist: a shutdown() that does not await the
\* tasks it has cancelled
FinalPersistEarly(r) ==
    /\ LoopFree
    /\ spc[r] = "gather"
    /\ CleanupCall
    /\ finalSaves' = finalSaves + 1
    /\ spc' = [spc EXCEPT ![r] = "persist"]
    /\ UNCHANGED <<svcRunning, shutdownRequested, loopOpen>>
    /\ UNCHANGED <<detectVars, lockVars, monVars>>

\* shutdown() of task r after the gather: cleanup() restores the signal
\* handlers and calls learner.cleanup(), the final _save_patterns
FinalPersist(r) ==
    /\ LoopFree
    /\ spc[r] = "gather"
    /\ GatherReturns
    /\ CleanupCall
    /\ finalSaves' = finalSaves + 1
    /\ spc' = [spc EXCEPT ![r] = "persist"]
    /\ UNCHANGED <<svcRunning, shutdownRequested, loopOpen>>
    /\ UNCHANGED <<detectVars, lockVars, monVars>>

\* cleanup() after learner.cleanup(): monitor.cleanup(), that is stop(); then
\* shutdown() returns
MonitorCleanup(r) ==
    /\ loopOpen
    /\ spc[r] = "persist"
    /\ savePc = "idle"
    /\ StopCall
    /\ spc' = [spc EXCEPT ![r] = "done"]
    /\ UNCHANGED <<svcRunning, shutdownRequested, loopOpen, finalSaves>>
    /\ UNCHANGED <<storeVars, detectVars, lockVars>>

\* start() has returned: asyncio.run cancels the tasks that are left, runs the
\* loop until they have ended and closes it.  A shutdown() cancelled at its
\* gather, or before its first step, does not reach cleanup().
Teardown ==
    /\ LoopFree
    /\ spc.main = "done"
    /\ loopOpen' = FALSE
    /\ spc' = [spc EXCEPT !.sig = IF @ \in {"ready", "gather"} THEN "killed" ELSE @,
                          !.learn = IF @ \in {"new", "sleep", "cancelled"} THEN "done" ELSE @,
                          !.mon = IF @ \in {"new", "cancelled"} THEN "done" ELSE @]
    /\ pc' = [t \in Tasks |-> IF pc[t] \in {"unborn", "crashed"} THEN pc[t] ELSE "done"]
    /\ tasks' = {}
    /\ cancelQueue' = <<>>
    /\ prev_io' = [g \in Gens |-> <<>>]
    /\ UNCHANGED <<running, heap, metrics_cache, lock, starts, rpc, held, cpuMerged,
                   afterStop>>
    /\ UNCHANGED <<svcRunning, shutdownRequested, finalSaves>>
    /\ UNCHANGED <<storeVars, detectVars, lockVars>>

\* a sampler task of the monitor runs
SvcTick(t) == LoopFree /\ SteadyTick(t)

\* a sampler task cancelled by stop() ends
SvcFinish == LoopFree /\ Finish

ServiceNext ==
    \/ SvcStart
    \/ MonitorTaskRun
    \/ LearnStep
    \/ SvcSignal
    \/ MainWake
    \/ MainInterrupt
    \/ SignalShutdown
    \/ \E k \in {"learn", "mon"} : SvcDeliver(k)
    \/ \E r \in {"main", "sig"} : FinalPersist(r)
    \/ \E r \in {"main", "sig"} : MonitorCleanup(r)
    \/ Teardown
    \/ \E t \in Tasks : SvcTick(t)
    \/ SvcFinish
    \/ SaveOpen
    \/ SaveDump
    \/ SaveReplace
    \/ SaveError

SpecService == Init /\ [][ServiceNext]_vars

----------------------------------------------------------------------------

Next == StoreNext

Spec == Init /\ [][Next]_vars

----------------------------------------------------------------------------
(* The detector as a function of the snapshot: two runs side by side *)

\* the values of the store inputs, the thresholds themselves and a cpu_percent
\* above 100 (the sum over the cores)
DetectInputs ==
    { Metrics(ts, cpu, load, mem, net, procs) :
        ts \in TimestampValues, cpu \in CpuValues \cup {CpuThreshold, 130},
        load \in LoadValues \cup {LoadThreshold},
        mem \in MemValues \cup {MemThreshold, 100},
        net \in NetValues, procs \in ProcessValues }

DetectTwice ==
    /\ snapA = <<>>
    /\ \E a \in DetectInputs, b \in DetectInputs :
        /\ snapA' = <<a>>
        /\ snapB' = <<b>>
        /\ candA' = Candidates(a)
        /\ candB' = Candidates(b)
    /\ UNCHANGED <<callArgs, callResult>>
    /\ UNCHANGED <<storeVars, monVars, svcVars, lockVars>>

DetectNext == DetectTwice

SpecDetect == Init /\ [][DetectNext]_vars

----------------------------------------------------------------------------
(* _add_pattern as a function of the population and the candidate: one call
   on any population within the capacity, as a run of the program or a
   patterns.json of any origin may have produced it *)

PatternIds == {"p1", "p2", "p3", "p4"}

\* a stored pattern
StoredPatterns ==
    { [id |-> id, pattern_type |-> "high_memory", data |-> dt,
       created_at |-> 0, updated_at |-> u, confidence |-> c,
       metadata |-> [detection_method |-> "loaded"]] :
        id \in PatternIds, u \in {1, 2}, c \in {500, 950},
        dt \in { [memory_percent |-> 90], [memory_percent |-> 90, note |-> 1] } }

\* a candidate as a detector builds it: created_at and updated_at are the
\* timestamp of its snapshot
CandidatePatterns ==
    { [id |-> id, pattern_type |-> "high_memory",
       data |-> IF stamped THEN [memory_percent |-> 95, timestamp |-> ts]
                ELSE [memory_percent |-> 95],
       created_at |-> ts, updated_at |-> ts, confidence |-> 600,
       metadata |-> [detection_method |-> "threshold"]] :
        id \in PatternIds, ts \in {1, 2, 3}, stamped \in BOOLEAN }

\* the populations of n patterns with pairwise different ids
RECURSIVE Populations(_)
Populations(n) ==
    IF n = 0 THEN {<<>>}
    ELSE { Append(pop, p) : pop \in { q \in Populations(n - 1) : Len(q) = n - 1 },
                            p \in StoredPatterns }
             \cup Populations(n - 1)

DistinctIds(pop) == \A i \in 1..Len(pop), j \in 1..Len(pop) : pop[i].id = pop[j].id => i = j

AddOnce ==
    /\ callArgs = <<>>
    /\ \E pop \in { q \in Populations(MaxPatterns) : DistinctIds(q) },
          cand \in CandidatePatterns :
        /\ callArgs' = <<[patterns |-> pop, pattern |-> cand]>>
        /\ callResult' = <<AddPattern(pop, cand)>>
    /\ UNCHANGED <<snapA, snapB, candA, candB>>
    /\ UNCHANGED <<storeVars, monVars, svcVars, lockVars>>

AddNext == AddOnce

SpecAdd == Init /\ [][AddNext]_vars

----------------------------------------------------------------------------
(* _load_patterns as a function of the file it finds *)

\* the records of a patterns list: patterns, and a record without its id
FileRecords ==
    { [id |-> id, pattern_type |-> "high_memory", data |-> [memory_percent |-> 90],
       created_at |-> 0, updated_at |-> u, confidence |-> 500,
       metadata |-> [detection_method |-> "loaded"]] :
        id \in {"p1", "p2", "p3"}, u \in {1, 2} }
    \cup { [pattern_type |-> "high_memory", data |-> [memory_percent |-> 90],
            created_at |-> 0, updated_at |-> 1] }

MaxRecords == 3

RECURSIVE RecordLists(_)
RecordLists(n) ==
    IF n = 0 THEN {<<>>}
    ELSE { Append(l, r) : l \in { q \in RecordLists(n - 1) : Len(q) = n - 1 },
                          r \in FileRecords }
             \cup RecordLists(n - 1)

\* no file, a file that is not JSON, or a document with a patterns list
LoadFiles ==
    {<<>>} \cup { PartialFile(Document(l)) : l \in RecordLists(1) }
           \cup { WholeFile(Document(l)) : l \in RecordLists(MaxRecords) }

LoadOnce ==
    /\ callArgs = <<>>
    /\ \E file \in LoadFiles :
        /\ callArgs' = <<[pattern_file |-> file]>>
        /\ callResult' = <<LoadPatterns(file)>>
    /\ UNCHANGED <<snapA, snapB, candA, candB>>
    /\ UNCHANGED <<storeVars, monVars, svcVars, lockVars>>

\* one _add_pattern call on the store that was loaded
AddAfterLoad ==
    /\ Len(callArgs) = 1
    /\ \E p \in CandidatePatterns :
        /\ callArgs' = Append(callArgs, [pattern |-> p])
        /\ callResult' = Append(callResult, AddPattern(callResult[1], p))
    /\ UNCHANGED <<snapA, snapB, candA, candB>>
    /\ UNCHANGED <<storeVars, monVars, svcVars, lockVars>>

LoadNext == LoadOnce \/ AddAfterLoad

SpecLoad == Init /\ [][LoadNext]_vars

----------------------------------------------------------------------------
(* The lock of the pattern store.  One caller runs process(), whose detectors
   await _add_pattern for one candidate after the other; another caller runs
   cleanup(), that is _save_patterns.  Both bodies are inside
   async with self._lock.  Every statement is a step of its own, so that only
   the lock keeps the two apart.  Positions of the adder: "idle", "lock"
   (waiting for the lock), "lookup" (lock held, before the insert or the
   update), "limit" (inserted, before the capacity test), "release". *)

\* a faulty variant of StoreLockFree: the lock is never seen as held
StoreLockIgnored == TRUE

StoreLockFree == storeLock = <<>>

\* process(metrics): the detectors find their candidates
AddCall ==
    /\ apc = "idle"
    /\ nproc < MaxProcess
    /\ \E m \in StoreInputs \ {<<>>} :
        /\ pending' = Candidates(m[1])
        /\ apc' = IF Candidates(m[1]) = <<>> THEN "idle" ELSE "lock"
    /\ nproc' = nproc + 1
    /\ UNCHANGED <<storeLock, settled>>
    /\ UNCHANGED <<patterns, pattern_file, temp_file, savePc, up, addLog, loadedIds,
                   fileBefore, fileNew, saveOutcome>>
    /\ UNCHANGED <<detectVars, monVars, svcVars>>

\* async with self._lock of _add_pattern
AddAcquire ==
    /\ apc = "lock"
    /\ StoreLockFree
    /\ storeLock' = <<"add">>
    /\ apc' = "lookup"
    /\ UNCHANGED <<pending, settled>>
    /\ UNCHANGED storeVars
    /\ UNCHANGED <<detectVars, monVars, svcVars>>

\* the update of an existing pattern, or the insert of a new one
AddStore ==
    /\ apc = "lookup"
    /\ IF HasId(patterns, Head(pending).id)
       THEN /\ patterns' = AddPattern(patterns, Head(pending))
            /\ apc' = "release"
       ELSE /\ patterns' = Append(patterns, Head(pending))
            /\ apc' = "limit"
    /\ UNCHANGED <<storeLock, pending, settled>>
    /\ UNCHANGED <<pattern_file, temp_file, savePc, up, nproc, addLog, loadedIds,
                   fileBefore, fileNew, saveOutcome>>
    /\ UNCHANGED <<detectVars, monVars, svcVars>>

\* if len(self.patterns) > max_patterns: del self.patterns[oldest.id]
AddLimit ==
    /\ apc = "limit"
    /\ patterns' = IF Len(patterns) > MaxPatterns
                   THEN RemoveAt(patterns, OldestIndex(patterns))
                   ELSE patterns
    /\ apc' = "release"
    /\ UNCHANGED <<storeLock, pending, settled>>
    /\ UNCHANGED <<pattern_file, temp_file, savePc, up, nproc, addLog, loadedIds,
                   fileBefore, fileNew, saveOutcome>>
    /\ UNCHANGED <<detectVars, monVars, svcVars>>

\* the end of the async with block of _add_pattern: this add is complete
AddRelease ==
    /\ apc = "release"
    /\ storeLock' = <<>>
    /\ settled' = settled \cup {patterns}
    /\ pending' = Tail(pending)
    /\ apc' = IF Tail(pending) = <<>> THEN "idle" ELSE "lock"
    /\ UNCHANGED storeVars
    /\ UNCHANGED <<detectVars, monVars, svcVars>>

\* async with self._lock of _save_patterns, and data = {...}
LockedSaveBegin ==
    /\ savePc = "idle"
    /\ StoreLockFree
    /\ storeLock' = <<"save">>
    /\ fileBefore' = pattern_file
    /\ fileNew' = WholeFile(Document(patterns))
    /\ savePc' = "dump"
    /\ saveOutcome' = "none"
    /\ UNCHANGED <<apc, pending, settled>>
    /\ UNCHANGED <<patterns, pattern_file, temp_file, up, nproc, addLog, loadedIds>>
    /\ UNCHANGED <<detectVars, monVars, svcVars>>

\* open(temp_file, 'w') and json.dump(data, f)
LockedSaveDump ==
    /\ savePc = "dump"
    /\ temp_file' = fileNew
    /\ savePc' = "replace"
    /\ UNCHANGED lockVars
    /\ UNCHANGED <<patterns, pattern_file, up, nproc, addLog, loadedIds, fileBefore,
                   fileNew, saveOutcome>>
    /\ UNCHANGED <<detectVars, monVars, svcVars>>

\* temp_file.replace(self.pattern_file) and the end of the async with block
LockedSaveReplace ==
    /\ savePc = "replace"
    /\ pattern_file' = temp_file
    /\ temp_file' = <<>>
    /\ savePc' = "idle"
    /\ saveOutcome' = "ok"
    /\ storeLock' = <<>>
    /\ UNCHANGED <<apc, pending, settled>>
    /\ UNCHANGED <<patterns, up, nproc, addLog, loadedIds, fileBefore, fileNew>>
    /\ UNCHANGED <<detectVars, monVars, svcVars>>

StoreLockNext ==
    \/ AddCall
    \/ AddAcquire
    \/ AddStore
    \/ AddLimit
    \/ AddRelease
    \/ LockedSaveBegin
    \/ LockedSaveDump
    \/ LockedSaveReplace

SpecStoreLock == Init /\ [][StoreLockNext]_vars

----------------------------------------------------------------------------
(* process() with its three detector calls in another order.  A first
   process() call, in the order of the code, builds the population; the second
   call is evaluated in each of the six orders of the three rule families. *)

RuleOrders ==
    { <<"cpu", "memory", "network">>, <<"cpu", "network", "memory">>,
      <<"memory", "cpu", "network">>, <<"memory", "network", "cpu">>,
      <<"network", "cpu", "memory">>, <<"network", "memory", "cpu">> }

\* the order of process()
CodeOrder == <<"cpu", "memory", "network">>

DetectBy(kind, metrics) ==
    CASE kind = "cpu" -> DetectCpuPatterns(metrics)
      [] kind = "memory" -> DetectMemoryPatterns(metrics)
      [] kind = "network" -> DetectNetworkPatterns(metrics)

\* the candidates of a process() whose detector calls are in the given order
CandidatesIn(order, metrics) ==
    DetectBy(order[1], metrics) \o DetectBy(order[2], metrics)
        \o DetectBy(order[3], metrics)

\* the first process() call on the empty store
OrderFirst ==
    /\ callArgs = <<>>
    /\ \E m \in StoreInputs \ {<<>>} :
        /\ callArgs' = <<[metrics |-> m[1]]>>
        /\ callResult' = <<AddAll(<<>>, Candidates(m[1]))>>
    /\ UNCHANGED <<snapA, snapB, candA, candB>>
    /\ UNCHANGED <<storeVars, monVars, svcVars, lockVars>>

\* the second process() call, in every order
OrderSecond ==
    /\ Len(callArgs) = 1
    /\ \E m \in StoreInputs \ {<<>>} :
        /\ callArgs' = Append(callArgs, [metrics |-> m[1]])
        /\ callResult' = Append(callResult,
               [o \in RuleOrders |-> AddAll(callResult[1], CandidatesIn(o, m[1]))])
    /\ UNCHANGED <<snapA, snapB, candA, candB>>
    /\ UNCHANGED <<storeVars, monVars, svcVars, lockVars>>

OrderNext == OrderFirst \/ OrderSecond

SpecOrder == Init /\ [][OrderNext]_vars

----------------------------------------------------------------------------
(* One iteration of the learning loop as a function of the configuration, the
   population and what get_metrics returned: process(), and where the loop
   sleeps afterwards.  The populations are those of a store loaded from a
   file of 0 to 11 patterns. *)

\* a faulty variant of ProcessOutcome without the try block of process()
ProcessOutcomeUnhandled(enabled, git, pats, m) ==
    IF ~enabled
    THEN [patterns |-> pats, persist |-> FALSE, commit |-> FALSE, raised |-> FALSE]
    ELSE IF m = <<>>
    THEN [patterns |-> pats, persist |-> FALSE, commit |-> FALSE, raised |-> TRUE]
    ELSE LET after == AddAll(pats, Candidates(m[1]))
         IN  [patterns |-> after,
              persist |-> Len(after) % SavePeriod = 0,
              commit |-> /\ Len(after) % SavePeriod = 0
                         /\ git.enabled /\ git.auto_commit,
              raised |-> FALSE]

\* a faulty variant of ProcessOutcome that does not persist an empty population
ProcessOutcomeSkipsEmpty(enabled, git, pats, m) ==
    IF ~enabled
    THEN [patterns |-> pats, persist |-> FALSE, commit |-> FALSE, raised |-> FALSE]
    ELSE IF m = <<>>
    THEN [patterns |-> pats, persist |-> FALSE, commit |-> FALSE, raised |-> FALSE]
    ELSE LET after == AddAll(pats, Candidates(m[1]))
             due == Len(after) > 0 /\ Len(after) % SavePeriod = 0
         IN  [patterns |-> after,
              persist |-> due,
              commit |-> due /\ git.enabled /\ git.auto_commit,
              raised |-> FALSE]

\* process(metrics): the population it leaves, whether it called
\* _save_patterns and _git_commit_changes, and whether an exception left it.
\* With learning disabled it returns at once; asdict(None) raises inside the
\* try block and the handler logs it.
ProcessOutcome(enabled, git, pats, m) ==
    IF ~enabled
    THEN [patterns |-> pats, persist |-> FALSE, commit |-> FALSE, raised |-> FALSE]
    ELSE IF m = <<>>
    THEN [patterns |-> pats, persist |-> FALSE, commit |-> FALSE, raised |-> FALSE]
    ELSE LET after == AddAll(pats, Candidates(m[1]))
         IN  [patterns |-> after,
              persist |-> Len(after) % SavePeriod = 0,
              commit |-> /\ Len(after) % SavePeriod = 0
                         /\ git.enabled /\ git.auto_commit,
              raised |-> FALSE]

\* learning_loop after process(): asyncio.sleep(interval), or the handler's
\* asyncio.sleep(5) when an exception reached the loop
LoopAfter(outcome) == IF outcome.raised THEN "backoff" ELSE "interval"

\* a population of n high_memory patterns, as _load_patterns leaves it
LoadedPopulation(n) ==
    [i \in 1..n |-> DetectMemoryPatterns(Metrics(i, 50, 5, 90, NetQuiet, 100))[1]]

LoadedSizes == {0, 1, 2, 9, 10, 11}

GitConfigs == [enabled : BOOLEAN, auto_commit : BOOLEAN]

IterateOnce ==
    /\ callArgs = <<>>
    /\ \E enabled \in BOOLEAN, git \in GitConfigs, n \in LoadedSizes,
          m \in StoreInputs :
        /\ callArgs' = <<[enabled |-> enabled, git |-> git,
                          patterns |-> LoadedPopulation(n), metrics |-> m]>>
        /\ callResult' = <<[outcome |-> ProcessOutcome(enabled, git,
                                                       LoadedPopulation(n), m),
                            next |-> LoopAfter(ProcessOutcome(enabled, git,
                                                       LoadedPopulation(n), m))]>>
    /\ UNCHANGED <<snapA, snapB, candA, candB>>
    /\ UNCHANGED <<storeVars, monVars, svcVars, lockVars>>

ProcessNext == IterateOnce

SpecProcess == Init /\ [][ProcessNext]_vars

----------------------------------------------------------------------------
(* The network collector and the network detector on their own: the baseline
   of _monitor_network, then ticks; the net_io of each tick is given to
   _detect_network_patterns inside an otherwise quiet snapshot and the
   candidates are added to an empty population. *)

\* number of ticks of the network collector in one behaviour
MaxTicks == 2

\* asyncio.sleep(5) of the except Exception handler
BackoffSeconds == 5

\* the cumulative counters of one interface, or <<>> when the host does not
\* report the interface
LoCounters ==
    {<<>>} \cup { << [iface |-> "lo", bytes_sent |-> v, bytes_recv |-> v] >> :
                    v \in {0, 30000000} }
EthCounters ==
    {<<>>} \cup { << [iface |-> "eth0", bytes_sent |-> v, bytes_recv |-> w] >> :
                    v \in {0, 15000000, 30000000}, w \in {0, 15000000, 30000000} }
WlanCounters ==
    {<<>>} \cup { << [iface |-> "wlan0", bytes_sent |-> v, bytes_recv |-> 0] >> :
                    v \in {0, 30000000} }

\* psutil.net_io_counters(pernic=True)
CounterMaps ==
    { l \o e \o w : l \in LoCounters, e \in EthCounters, w \in WlanCounters }

\* the snapshot around a net_io
QuietWith(net_io) == Metrics(1, 50, 3, 50, net_io, 100)

\* prev_io = psutil.net_io_counters(pernic=True), before the loop
NetBaseline ==
    /\ callResult = <<>>
    /\ \E c \in CounterMaps :
        callResult' = <<[prev_io |-> c, ticks |-> 0, net_io |-> <<>>,
                         cands |-> <<>>, stored |-> <<>>, gap |-> 0, elapsed |-> 0]>>
    /\ UNCHANGED <<snapA, snapB, candA, candB, callArgs>>
    /\ UNCHANGED <<storeVars, monVars, svcVars, lockVars>>

\* one tick of _monitor_network, and the detector on its net_io
NetTick ==
    /\ callResult # <<>>
    /\ callResult[1].ticks < MaxTicks
    /\ \E c \in CounterMaps :
        LET prev == callResult[1].prev_io
            net_io == NetIo(prev, c)
            cands == DetectNetworkPatterns(QuietWith(net_io))
        IN  /\ callArgs' = <<[prev_io |-> prev, curr_io |-> c]>>
            /\ callResult' = <<[prev_io |-> c, ticks |-> callResult[1].ticks + 1,
                                 net_io |-> net_io, cands |-> cands,
                                 stored |-> AddAll(<<>>, cands),
                                 gap |-> 0,
                                 elapsed |-> callResult[1].gap + NetworkInterval]>>
    /\ UNCHANGED <<snapA, snapB, candA, candB>>
    /\ UNCHANGED <<storeVars, monVars, svcVars, lockVars>>

\* a tick whose psutil.net_io_counters call raises after the interval sleep:
\* the handler logs it and sleeps BackoffSeconds; prev_io keeps the sample
\* from before the failure
NetTickFails ==
    /\ callResult # <<>>
    /\ callResult[1].ticks < MaxTicks
    /\ callResult' = <<[callResult[1] EXCEPT
                          !.ticks = @ + 1,
                          !.gap = @ + NetworkInterval + BackoffSeconds]>>
    /\ UNCHANGED <<snapA, snapB, candA, candB, callArgs>>
    /\ UNCHANGED <<storeVars, monVars, svcVars, lockVars>>

NetNext == NetBaseline \/ NetTick \/ NetTickFails

SpecNet == Init /\ [][NetNext]_vars

----------------------------------------------------------------------------
(* Claims about the pattern store and the detector *)

\* C1: starting from an empty store, after any sequence of _add_pattern calls
\* the number of stored patterns is at most learning.max_patterns.
C1_CapacityInvariant == Len(patterns) <= MaxPatterns

\* an insert into a full store has just evicted
C1_Witness ==
    \E i \in 1..Len(addLog) :
        /\ ~addLog[i].hit
        /\ addLog[i].sizeBefore = MaxPatterns
        /\ addLog[i].sizeAfter = MaxPatterns
        /\ Len(patterns) = MaxPatterns

\* C2: two candidates with the same pattern_type and the same data mapping get
\* the same id, so two snapshots that differ only outside the candidate's data
\* (the timestamp, an unrelated metric) yield the same id for the same rule.
C2_SameDataSameId ==
    \A i \in 1..Len(candA), j \in 1..Len(candB) :
        (/\ candA[i].pattern_type = candB[j].pattern_type
         /\ candA[i].data = candB[j].data)
            => candA[i].id = candB[j].id

\* C19: for every snapshot the detector yields a high_cpu candidate exactly
\* when cpu_percent > 80 and the one-minute load average > 4.0, at most one
\* per call, with confidence clamp((cpu_percent - 70) / 30, 0, 1); cpu_percent
\* 85 with load 5.0 yields one candidate with confidence 0.5.
C19_HighCpuRule ==
    snapA # <<>> =>
        LET m == snapA[1]
            cs == SelectSeq(candA, LAMBDA p : p.pattern_type = "high_cpu")
            raw == ((m.cpu_percent - 70) * 1000) \div 30
        IN  /\ Len(cs) <= 1
            /\ (Len(cs) = 1) <=> (m.cpu_percent > 80 /\ m.load_avg["1min"] > 4)
            /\ Len(cs) = 1 =>
                  cs[1].confidence = (IF raw < 0 THEN 0 ELSE IF raw > 1000 THEN 1000 ELSE raw)
            /\ (m.cpu_percent = 85 /\ m.load_avg["1min"] = 5) =>
                  (Len(cs) = 1 /\ cs[1].confidence = 500)

\* the snapshot with cpu_percent 85 and load 5 has given its candidate, next
\* to a snapshot with the same cpu_percent and load 4 that has given none
C19_Witness ==
    /\ snapA # <<>>
    /\ snapA[1].cpu_percent = 85
    /\ snapA[1].load_avg["1min"] = 5
    /\ \E i \in 1..Len(candA) :
          candA[i].pattern_type = "high_cpu" /\ candA[i].confidence = 500
    /\ snapB[1].cpu_percent = 85
    /\ snapB[1].load_avg["1min"] = 4
    /\ \A i \in 1..Len(candB) : candB[i].pattern_type # "high_cpu"

\* C20: for every snapshot the detector yields a high_memory candidate exactly
\* when memory_percent > 85, at most one per call, with confidence
\* clamp((memory_percent - 75) / 25, 0, 1); memory_percent 90 yields 0.6.
C20_HighMemoryRule ==
    snapB # <<>> =>
        LET m == snapB[1]
            cs == SelectSeq(candB, LAMBDA p : p.pattern_type = "high_memory")
            raw == ((m.memory_percent - 75) * 1000) \div 25
        IN  /\ Len(cs) <= 1
            /\ (Len(cs) = 1) <=> (m.memory_percent > 85)
            /\ Len(cs) = 1 =>
                  cs[1].confidence = (IF raw < 0 THEN 0 ELSE IF raw > 1000 THEN 1000 ELSE raw)
            /\ m.memory_percent = 90 => (Len(cs) = 1 /\ cs[1].confidence = 600)

\* the snapshot with memory_percent 90 has given its candidate, next to a
\* snapshot with memory_percent 85 that has given none
C20_Witness ==
    /\ snapB # <<>>
    /\ snapB[1].memory_percent = 90
    /\ \E i \in 1..Len(candB) :
          candB[i].pattern_type = "high_memory" /\ candB[i].confidence = 600
    /\ snapA[1].memory_percent = 85
    /\ \A i \in 1..Len(candA) : candA[i].pattern_type # "high_memory"

\* C3: every _add_pattern call that hits an existing id leaves that pattern's
\* confidence at least what it was and at most 1.0, raised by the step 0.1 and
\* capped at 1.0; no stored pattern, loaded ones included, exceeds 1.0.
C3_ConfidenceMonotone ==
    /\ \A i \in 1..Len(addLog) :
          addLog[i].hit =>
              /\ addLog[i].after >= addLog[i].before
              /\ addLog[i].after <= ConfOne
              /\ addLog[i].after = Min(ConfOne, addLog[i].before + ConfStep)
    /\ \A i \in 1..Len(patterns) : patterns[i].confidence <= ConfOne

\* a pattern read from patterns.json has been detected again and has gained
C3_Witness ==
    \E i \in 1..Len(addLog) :
        /\ addLog[i].hit
        /\ addLog[i].id \in loadedIds
        /\ addLog[i].after > addLog[i].before

\* C4: at every point of a save, a crash or a write error between the write of
\* the temporary file and the rename included, patterns.json is the previous
\* complete document or the new complete document, never a partial one.
C4_AtomicPersist ==
    /\ pattern_file = <<>> \/ pattern_file[1].complete
    /\ pattern_file = fileBefore \/ pattern_file = fileNew

\* the process died after the temporary file was written and before the rename
C4_Witness ==
    /\ ~up
    /\ temp_file # <<>>
    /\ temp_file = fileNew
    /\ fileNew # fileBefore
    /\ pattern_file = fileBefore

\* C15: process() persists the population on every 10th call (the 10th,
\* 20th, ...) and on no other call, whatever the number of stored patterns.
C15_PersistEveryTenthCall ==
    [][nproc' = nproc + 1 =>
          ((savePc' = "open") <=> (nproc' % SavePeriod = 0))]_vars

\* C17: when _save_patterns fails (at the open or the write of the temporary
\* file, or at the rename), the caller goes on, the population is what it was
\* when the attempt began, patterns.json is unchanged, and a later flush can
\* start the persist again.
C17_FailedPersistKeepsState ==
    saveOutcome = "failed" =>
        /\ up
        /\ savePc = "idle"
        /\ WholeFile(Document(patterns)) = fileNew
        /\ pattern_file = fileBefore
        /\ ENABLED Cleanup

\* the rename of a fully written temporary file has failed: the population is
\* in memory, the file on disk is the older one
C17_Witness ==
    /\ saveOutcome = "failed"
    /\ patterns # <<>>
    /\ temp_file = fileNew
    /\ pattern_file # <<>>
    /\ pattern_file # fileNew

----------------------------------------------------------------------------
(* Claims about the snapshot store and the sampler tasks *)

\* C5: at most one task is inside the snapshot critical section at any time:
\* no two collectors merge at once and no get_metrics read overlaps a merge.
C5_MutualExclusion ==
    Cardinality({ t \in Tasks : pc[t] = "cs" }) + (IF rpc = "cs" THEN 1 ELSE 0) <= 1

\* a collector holds the lock while another collector and the reader wait for it
C5_Witness ==
    \E t \in Tasks, u \in Tasks :
        /\ t # u
        /\ pc[t] = "cs"
        /\ lock = <<t>>
        /\ pc[u] = "lock"
        /\ rpc = "lock"

\* C6: the shared snapshot is None or an object with all of its fields set, and
\* so is every value get_metrics returns, under any interleaving of the five
\* collectors.
C6_SnapshotComplete ==
    /\ metrics_cache # <<>> => DOMAIN heap[metrics_cache[1]] = MetricFields
    /\ held.ref # <<>> => DOMAIN heap[held.ref[1]] = MetricFields

\* get_metrics has returned the snapshot while a collector waits for the lock
\* and only the CPU collector has merged so far
C6_Witness ==
    /\ rpc = "cs"
    /\ held.ref # <<>>
    /\ heap[held.ref[1]].memory_percent = 0
    /\ \E t \in Tasks : pc[t] = "lock"

\* C7: a value returned by get_metrics is a copy or immutable: no later merge
\* changes any field of the value a caller already holds.
C7_ReturnedValueStable ==
    [][(held.ref # <<>> /\ held' = held) => heap'[held.ref[1]] = heap[held.ref[1]]]_vars

\* C8: get_metrics returns None in every state before the first CPU sample has
\* been merged, however many ticks of the other collectors have run: only the
\* CPU collector creates the snapshot.
C8_NoDataBeforeFirstCpu ==
    ~cpuMerged => (metrics_cache = <<>> /\ held.ref = <<>>)

\* memory, disk and system collector have ticked, the CPU collector has not,
\* and get_metrics has answered None
C8_Witness ==
    /\ ~cpuMerged
    /\ pc[<<"cpu", 1>>] = "new"
    /\ pc[<<"memory", 1>>] = "sleep"
    /\ pc[<<"disk", 1>>] = "sleep"
    /\ pc[<<"system", 1>>] = "sleep"
    /\ pc[<<"network", 1>>] = "sleep"
    /\ held.called
    /\ held.ref = <<>>

\* C9: when stop() returns, all five sampler tasks have terminated.
C9_StopWaitsForTasks ==
    (~running /\ starts > 0) => \A t \in Tasks : pc[t] \in {"unborn", "done"}

\* C10: after stop() the snapshot is discarded: get_metrics (which returns
\* self._metrics_cache) gives None from the return of stop() until a later
\* start() has produced a new first CPU sample.
C10_SnapshotDiscardedOnStop ==
    afterStop => metrics_cache = <<>>

\* C11: a collection call that raises during a tick does not end its
\* collector, the other collectors or the monitor: while the monitor runs,
\* each of the five collectors of the last start() is still in its loop
\* (created, at its interval sleep or at its 5-second backoff sleep).  This
\* includes the network collector's initial baseline read.
C11_FailureKeepsLooping ==
    running => \A k \in Kinds : pc[<<k, starts>>] \in {"new", "sleep", "backoff"}

\* C12: after stop(), every sampler task that has not ended yet (it is at its
\* interval sleep, at its backoff sleep or has not run at all) eventually
\* terminates; none is left looping.
C12_StoppedTasksTerminate ==
    \A t \in Tasks :
        (~running /\ pc[t] \notin {"unborn", "done", "crashed"}) ~> (pc[t] = "done")

\* stop() has cancelled one task at its backoff sleep and one at its interval
\* sleep, and a third one has already ended
C12_Witness ==
    /\ ~running
    /\ \E t \in Tasks, u \in Tasks, v \in Tasks :
        /\ pc[t] = "interrupted"
        /\ pc[u] = "cancelled"
        /\ pc[v] = "done"

----------------------------------------------------------------------------
(* Claims about one call of _add_pattern *)

\* C13: when the insert of a new pattern makes the population exceed
\* max_patterns, exactly one pattern is removed, it has the minimum updated_at
\* of the whole population at that moment (the new pattern included), and
\* every other pattern stays in place.
C13_EvictsOneOldest ==
    callArgs # <<>> =>
        LET pats == callArgs[1].patterns
            c == callArgs[1].pattern
            ins == Append(pats, c)
        IN  (~HasId(pats, c.id) /\ Len(ins) > MaxPatterns) =>
                \E k \in 1..Len(ins) :
                    /\ callResult[1] = RemoveAt(ins, k)
                    /\ \A j \in 1..Len(ins) : ins[k].updated_at <= ins[j].updated_at

\* an insert into a full population has evicted a pattern that is neither the
\* first one inserted nor the new one
C13_Witness ==
    /\ callArgs # <<>>
    /\ ~HasId(callArgs[1].patterns, callArgs[1].pattern.id)
    /\ Len(callArgs[1].patterns) = MaxPatterns
    /\ Len(callResult[1]) = MaxPatterns
    /\ callResult[1][1] = callArgs[1].patterns[1]
    /\ callResult[1][MaxPatterns] = callArgs[1].pattern

\* C30: when several patterns share the minimum updated_at at the eviction,
\* the one that is removed is the earliest inserted of them, the first in the
\* iteration order of the population; the result is a function of the
\* population and the candidate.
C30_TieEvictsEarliest ==
    callArgs # <<>> =>
        LET pats == callArgs[1].patterns
            c == callArgs[1].pattern
            ins == Append(pats, c)
            oldest == { k \in 1..Len(ins) :
                          \A j \in 1..Len(ins) : ins[k].updated_at <= ins[j].updated_at }
            first == CHOOSE k \in oldest : \A j \in oldest : k <= j
        IN  (~HasId(pats, c.id) /\ Len(ins) > MaxPatterns) =>
                callResult[1] = RemoveAt(ins, first)

\* the two stored patterns and the new one share their updated_at, and the
\* first of the stored ones is gone
C30_Witness ==
    /\ callArgs # <<>>
    /\ ~HasId(callArgs[1].patterns, callArgs[1].pattern.id)
    /\ Len(callArgs[1].patterns) = MaxPatterns
    /\ \A i \in 1..MaxPatterns :
          callArgs[1].patterns[i].updated_at = callArgs[1].pattern.updated_at
    /\ callResult[1] = Tail(callArgs[1].patterns) \o <<callArgs[1].pattern>>

\* C14: _add_pattern for a candidate whose id is in the population is an
\* update: the ids and the size of the population are unchanged and nothing is
\* evicted, every other entry is untouched, the entry keeps its id,
\* pattern_type, created_at and metadata, its updated_at becomes the
\* candidate's, and the candidate's data fields are overlaid onto its data
\* (keys absent from the candidate keep their old values).
C14_HitIsUpdate ==
    callArgs # <<>> =>
        LET pats == callArgs[1].patterns
            c == callArgs[1].pattern
            res == callResult[1]
        IN  HasId(pats, c.id) =>
                /\ Len(res) = Len(pats)
                /\ \A i \in 1..Len(pats) :
                    /\ res[i].id = pats[i].id
                    /\ pats[i].id # c.id => res[i] = pats[i]
                    /\ pats[i].id = c.id =>
                        /\ res[i].pattern_type = pats[i].pattern_type
                        /\ res[i].created_at = pats[i].created_at
                        /\ res[i].metadata = pats[i].metadata
                        /\ res[i].updated_at = c.updated_at
                        /\ DOMAIN res[i].data = DOMAIN pats[i].data \cup DOMAIN c.data
                        /\ \A key \in DOMAIN res[i].data :
                              res[i].data[key] = IF key \in DOMAIN c.data
                                                 THEN c.data[key]
                                                 ELSE pats[i].data[key]

\* an update of an entry of a full population: the entry has a data key the
\* candidate lacks and the candidate has one the entry lacks
C14_Witness ==
    /\ callArgs # <<>>
    /\ HasId(callArgs[1].patterns, callArgs[1].pattern.id)
    /\ Len(callArgs[1].patterns) = MaxPatterns
    /\ LET i == IndexOf(callArgs[1].patterns, callArgs[1].pattern.id)
       IN  /\ "note" \in DOMAIN callArgs[1].patterns[i].data
           /\ "timestamp" \in DOMAIN callArgs[1].pattern.data
           /\ callResult[1][i].data.note = 1
           /\ callResult[1][i].data.timestamp = callArgs[1].pattern.updated_at
           /\ callResult[1][i].updated_at # callArgs[1].patterns[i].updated_at

----------------------------------------------------------------------------
(* Claims about _load_patterns *)

\* C18: constructed on a missing or malformed patterns.json (not parseable, or
\* with a record that cannot be built at any position of the list) the store
\* starts empty; constructed on a well-formed file it starts with exactly the
\* patterns of the file.
C18_MalformedStartsEmpty ==
    callArgs # <<>> =>
        LET file == callArgs[1].pattern_file
            list == file[1].doc.patterns
        IN  IF file = <<>> \/ ~file[1].complete
               \/ \E i \in 1..Len(list) : ~Buildable(list[i])
            THEN callResult[1] = <<>>
            ELSE DistinctIds(list) => callResult[1] = list

\* C29: in a store that was constructed from a persisted file the population
\* never holds more than max_patterns patterns: not after the load, also when
\* the file holds more, and not after an add that follows.
C29_CapacityAfterLoad ==
    \A i \in 1..Len(callResult) : Len(callResult[i]) <= MaxPatterns

----------------------------------------------------------------------------
(* Claims about the service *)

\* C16: whenever the running service shuts down (by a signal, by the
\* cancellation of start() or by an exception in its loop), a final persist of
\* the pattern population has been started and has run to its end when the
\* event loop is closed.
C16_FinalPersistOnShutdown ==
    ~loopOpen => (finalSaves >= 1 /\ savePc = "idle")

\* C28: whichever way the loop of start() ends, the shutdown sequence has run
\* exactly once when the event loop is closed: the learning loop was cancelled
\* and awaited, learner.cleanup() was called once, the monitor was stopped, and
\* no shutdown() was left unfinished, also when the shutdown of a signal
\* overlaps with the one of start()'s finally block.
C28_ShutdownExactlyOnce ==
    ~loopOpen =>
        /\ finalSaves = 1
        /\ ~running
        /\ spc.learn = "done"
        /\ spc.sig \in {"none", "done"}

----------------------------------------------------------------------------
(* Claims about the network collector and the network detector *)

\* the candidates of the last tick that are about interface iface
CandidatesFor(iface) ==
    SelectSeq(callResult[1].cands, LAMBDA p : p.data.interface = iface)

\* C21: for every interface in network_io the detector yields exactly one
\* high_network candidate for it, with confidence 0.8, if and only if the
\* interface is not the loopback and its sent rate or its received rate is
\* above 1,000,000 bytes/s; otherwise it yields none.  The loopback never
\* yields a candidate, and there is no candidate for anything else.
C21_HighNetworkRule ==
    (callResult # <<>> /\ callArgs # <<>>) =>
        LET net_io == callResult[1].net_io
            cands == callResult[1].cands
        IN  /\ \A i \in 1..Len(net_io) :
                LET e == net_io[i]
                    fires == /\ e.iface # "lo"
                             /\ \/ e.stats.bytes_sent_ps > 1000000
                                \/ e.stats.bytes_recv_ps > 1000000
                    mine == CandidatesFor(e.iface)
                IN  IF fires
                    THEN /\ Len(mine) = 1
                         /\ mine[1].pattern_type = "high_network"
                         /\ mine[1].confidence = 800
                         /\ mine[1].data.bytes_sent_ps = e.stats.bytes_sent_ps
                         /\ mine[1].data.bytes_recv_ps = e.stats.bytes_recv_ps
                    ELSE mine = <<>>
            /\ \A j \in 1..Len(cands) : HasIface(net_io, cands[j].data.interface)

\* C33: the rate the network collector reports for an interface is the
\* difference of the two counter samples divided by the time that elapsed
\* between them, also when a failed tick and its backoff lie between the two
\* samples.  (gap and elapsed are the model's clock: the seconds slept since
\* the previous sample was taken.)
C33_RateOverElapsedTime ==
    (callResult # <<>> /\ callArgs # <<>>) =>
        \A i \in 1..Len(callResult[1].net_io) :
            LET e == callResult[1].net_io[i]
                prev == IfaceEntry(callArgs[1].prev_io, e.iface)
                curr == IfaceEntry(callArgs[1].curr_io, e.iface)
            IN  callResult[1].gap = 0 =>
                  /\ e.stats.bytes_sent_ps * callResult[1].elapsed
                        = curr.bytes_sent - prev.bytes_sent
                  /\ e.stats.bytes_recv_ps * callResult[1].elapsed
                        = curr.bytes_recv - prev.bytes_recv

\* a tick with a busy loopback, a busy eth0 and an eth0 rate exactly at the
\* threshold is behind it
C21_Witness ==
    /\ callResult # <<>> /\ callArgs # <<>>
    /\ LET net_io == callResult[1].net_io
       IN  /\ \E i \in 1..Len(net_io) :
                net_io[i].iface = "lo" /\ net_io[i].stats.bytes_sent_ps > 1000000
           /\ \E i \in 1..Len(net_io) :
                /\ net_io[i].iface = "eth0"
                /\ net_io[i].stats.bytes_sent_ps = 1000000
                /\ net_io[i].stats.bytes_recv_ps > 1000000
           /\ Len(CandidatesFor("eth0")) = 1
           /\ CandidatesFor("lo") = <<>>

\* C22: an interface that is absent from the previous-sample map has no entry
\* in the net_io of the tick and no high_network candidate; with an empty
\* previous-sample map the tick yields no candidate at all.
C22_NoRateWithoutBaseline ==
    (callResult # <<>> /\ callArgs # <<>>) =>
        LET prev == callArgs[1].prev_io
            curr == callArgs[1].curr_io
        IN  /\ \A i \in 1..Len(curr) :
                ~HasIface(prev, curr[i].iface) =>
                    /\ ~HasIface(callResult[1].net_io, curr[i].iface)
                    /\ CandidatesFor(curr[i].iface) = <<>>
            /\ prev = <<>> => callResult[1].cands = <<>>

\* eth0 appears with large counters in a tick whose previous sample did not
\* have it, next to an interface that does fire
C22_Witness ==
    /\ callResult # <<>> /\ callArgs # <<>>
    /\ ~HasIface(callArgs[1].prev_io, "eth0")
    /\ HasIface(callArgs[1].curr_io, "eth0")
    /\ IfaceEntry(callArgs[1].curr_io, "eth0").bytes_sent = 30000000
    /\ Len(CandidatesFor("wlan0")) = 1

\* C23: when a cumulative counter decreases between two samples, no negative
\* bytes-per-second value is written into network_io and none is recorded in
\* the data of a stored high_network pattern.
C23_NoNegativeRate ==
    callResult # <<>> =>
        /\ \A i \in 1..Len(callResult[1].net_io) :
              /\ callResult[1].net_io[i].stats.bytes_sent_ps >= 0
              /\ callResult[1].net_io[i].stats.bytes_recv_ps >= 0
        /\ \A j \in 1..Len(callResult[1].stored) :
              /\ callResult[1].stored[j].data.bytes_sent_ps >= 0
              /\ callResult[1].stored[j].data.bytes_recv_ps >= 0

----------------------------------------------------------------------------
(* Claims about the fields of the snapshot *)

\* C24: no metric value of a snapshot that get_metrics returned is fabricated:
\* memory_percent and the process count of the returned object are values the
\* memory collector and the system collector sampled (the host never reports
\* 0 for either), not fillers written by another collector.
C24_NoFabricatedValue ==
    held.ref # <<>> =>
        /\ heap[held.ref[1]].memory_percent \in MemSamples
        /\ heap[held.ref[1]].processes \in ProcSamples

\* the fields each collector assigns in a snapshot that exists
OwnedFields(kind) ==
    CASE kind = "cpu" -> {"cpu_percent", "load_avg"}
      [] kind = "memory" -> {"memory_percent"}
      [] kind = "disk" -> {"disk_usage"}
      [] kind = "network" -> {"network_io"}
      [] kind = "system" -> {"timestamp", "processes", "users", "boot_time"}

\* C25: a merge into a snapshot that is already present changes only the
\* fields of the merging collector: CPU only cpu_percent and load_avg, memory
\* only memory_percent, disk only disk_usage, network only network_io, the
\* system collector only timestamp, processes, users and boot_time; it
\* allocates nothing and leaves every other object as it is.
C25_MergeOwnFieldsOnly ==
    [][\A t \in Tasks :
         (Tick(t) /\ metrics_cache # <<>>) =>
            /\ metrics_cache' = metrics_cache
            /\ Len(heap') = Len(heap)
            /\ \A a \in 1..Len(heap) :
                 \A f \in MetricFields :
                    heap'[a][f] # heap[a][f] =>
                        (a = metrics_cache[1] /\ f \in OwnedFields(t[1]))]_vars

\* the memory, disk, network and system collectors have merged into the
\* snapshot the CPU collector created, and the CPU collector of a second
\* start has merged into it as well
C25_Witness ==
    /\ metrics_cache # <<>>
    /\ Len(heap) = 1
    /\ heap[1].memory_percent \in MemSamples
    /\ heap[1].disk_usage \in DiskSamples
    /\ heap[1].network_io # <<>>
    /\ heap[1].processes \in ProcSamples
    /\ starts = 2
    /\ pc[<<"cpu", 2>>] = "sleep"

\* the positions of a sampler task that has not ended and was not cancelled
LivePositions == {"new", "sleep", "lock", "cs", "backoff"}

\* C34: start() on a running monitor launches no task; over any sequence of
\* start() and stop() calls, a stop() directly followed by a start() included,
\* there is at most one sampler task per metric class that has neither ended
\* nor been cancelled, so no class is written by two live collectors.
C34_OneLiveTaskPerClass ==
    /\ [](\A k \in Kinds : \A g, h \in Gens :
             (pc[<<k, g>>] \in LivePositions /\ pc[<<k, h>>] \in LivePositions)
                 => g = h)
    /\ [][(starts' # starts \/ tasks' \ tasks # {}) => ~running]_vars

\* start() right after stop(): the tasks of the first start are cancelled and
\* have not run yet, the tasks of the second start are created
C34_Witness ==
    /\ running
    /\ starts = 2
    /\ \A k \in Kinds : pc[<<k, 1>>] \in {"cancelled", "interrupted"}
    /\ \A k \in Kinds : pc[<<k, 2>>] = "new"

\* C35: after stop() has returned no collector task modifies the shared
\* snapshot until a later start(): a task that stop() cancelled at its sleep
\* performs no further merge.
C35_NoMergeAfterStop ==
    [][(~running /\ ~running') =>
          (heap' = heap /\ metrics_cache' = metrics_cache)]_vars

\* stop() came before the memory collector had merged: its tasks have ended
\* and the snapshot still has the memory_percent it was created with
C35_Witness ==
    /\ ~running
    /\ afterStop
    /\ cancelQueue = <<>>
    /\ \A k \in Kinds : pc[<<k, 1>>] = "done"
    /\ metrics_cache # <<>>
    /\ heap[metrics_cache[1]].memory_percent = 0

\* C26: no collector queries the host while it holds the snapshot lock: the
\* critical section of each of the five collectors makes no psutil call.
C26_NoCollectionUnderLock ==
    [][\A t \in Tasks :
         Acquire(t) => QueriesUnderLock(t[1], metrics_cache # <<>>) = {}]_vars

----------------------------------------------------------------------------
(* Claims about the lock of the pattern store *)

\* C27: add and persist exclude each other under the lock of the store: the
\* document in patterns.json, and the one a save is writing, hold exactly a
\* population that existed between two complete adds, never one in the middle
\* of an add (after the insert and before the eviction).
C27_PersistSeesWholeAdds ==
    /\ pattern_file # <<>> => pattern_file[1].doc.patterns \in settled
    /\ temp_file # <<>> => temp_file[1].doc.patterns \in settled
    /\ ~(storeLock = <<"save">> /\ apc \in {"lookup", "limit", "release"})

\* a save holds the lock and has written its temporary file while process()
\* waits for the lock with a candidate whose insert will exceed the capacity;
\* an earlier save has replaced patterns.json
C27_Witness ==
    /\ storeLock = <<"save">>
    /\ savePc = "replace"
    /\ pattern_file # <<>>
    /\ apc = "lock"
    /\ Len(patterns) = MaxPatterns
    /\ ~HasId(patterns, Head(pending).id)

----------------------------------------------------------------------------
(* Claims about the order of the rules *)

\* the patterns of a population, as a set
PatternSet(pats) == { pats[i] : i \in 1..Len(pats) }

\* C31: the population that results from process(snapshot) does not depend on
\* the order in which the CPU, memory and network rules are evaluated: every
\* order leaves the same set of patterns with the same field values, also
\* when patterns are evicted during the call.
C31_RuleOrderIrrelevant ==
    Len(callResult) = 2 =>
        \A o \in RuleOrders :
            PatternSet(callResult[2][o]) = PatternSet(callResult[2][CodeOrder])

\* C38: the final persist of a shutdown starts only when the task of the
\* learning loop has ended; from then on the population does not change, so
\* the document that persist writes holds exactly the population the service
\* ends with; and the monitor is stopped only after that persist has run to
\* its end.
C38_FinalPersistAfterLearning ==
    /\ [][finalSaves' > finalSaves => spc.learn = "done"]_vars
    /\ [][finalSaves >= 1 => patterns' = patterns]_vars
    /\ []((finalSaves >= 1 /\ savePc = "idle" /\ saveOutcome = "ok") =>
            pattern_file = WholeFile(Document(patterns)))
    /\ [][(running /\ ~running') => (finalSaves >= 1 /\ savePc = "idle")]_vars

\* a service that learned a pattern after its last periodic save, was shut
\* down, persisted it and stopped the monitor
C38_Witness ==
    /\ finalSaves = 1
    /\ saveOutcome = "ok"
    /\ spc.learn = "done"
    /\ ~running /\ afterStop
    /\ Len(patterns) = 1
    /\ pattern_file = WholeFile(Document(patterns))
    /\ ~loopOpen

\* C39: with max_patterns >= 1, when _add_pattern returns for a candidate
\* whose id was not in the population, a pattern with that id is in the
\* population, whatever the population and the candidate's updated_at.
C39_InsertedPatternStays ==
    (callArgs # <<>> /\ MaxPatterns >= 1) =>
        (~HasId(callArgs[1].patterns, callArgs[1].pattern.id) =>
            HasId(callResult[1], callArgs[1].pattern.id))

\* the collector of class k has written its fields into the snapshot
Merged(k) ==
    /\ metrics_cache # <<>>
    /\ CASE k = "cpu" -> TRUE
         [] k = "memory" -> heap[metrics_cache[1]].memory_percent \in MemSamples
         [] k = "disk" -> heap[metrics_cache[1]].disk_usage \in DiskSamples
         [] k = "network" -> heap[metrics_cache[1]].network_io # <<>>
         [] k = "system" -> heap[metrics_cache[1]].processes \in ProcSamples

\* C40: when the monitor has been started and is not stopped, the tasks are
\* scheduled fairly and the CPU collection does not fail for ever, the
\* snapshot becomes present; once present it never becomes absent; and every
\* collector whose collection does not fail for ever (the network collector
\* must have read its baseline) gets its fields into the snapshot.
C40_SnapshotEventuallyComplete ==
    /\ [](running => <>(metrics_cache # <<>> \/ ~running))
    /\ [][metrics_cache # <<>> => metrics_cache' # <<>>]_vars
    /\ \A k \in Kinds :
         [](running => <>(\/ Merged(k)
                          \/ ~running
                          \/ pc[<<k, starts>>] = "crashed"))

\* the first run of the monitor has all five classes in the snapshot while
\* the CPU collector sits in the backoff sleep of a failed collection
C40_Witness ==
    /\ running
    /\ starts = 1
    /\ \A k \in Kinds : Merged(k)
    /\ pc[<<"cpu", 1>>] = "backoff"
    /\ pc[<<"memory", 1>>] = "backoff"

----------------------------------------------------------------------------
(* Claims about one iteration of the learning loop *)

\* C36: when get_metrics gave None, process() lets no exception out, leaves
\* the population as it was and calls neither _save_patterns nor the commit
\* hook, and the learning loop sleeps its interval and goes on; the same
\* holds for process() with learning disabled, whatever the snapshot.
C36_NoDataIsHarmless ==
    callArgs # <<>> =>
        ((callArgs[1].metrics = <<>> \/ ~callArgs[1].enabled) =>
            /\ ~callResult[1].outcome.raised
            /\ callResult[1].outcome.patterns = callArgs[1].patterns
            /\ ~callResult[1].outcome.persist
            /\ ~callResult[1].outcome.commit
            /\ callResult[1].next = "interval")

\* learning is enabled, None arrives at a store of ten patterns, for which a
\* persist would be due, and the git hook is configured
C36_Witness ==
    /\ callArgs # <<>>
    /\ callArgs[1].enabled
    /\ callArgs[1].metrics = <<>>
    /\ callArgs[1].git.enabled /\ callArgs[1].git.auto_commit
    /\ Len(callArgs[1].patterns) = 10
    /\ callResult[1].next = "interval"

\* C37: a process() call with learning enabled and a snapshot persists exactly
\* when the size of the population after detection is a multiple of 10, the
\* empty population included; the commit hook is called only after such a
\* persist and only when git.enabled and git.auto_commit are both set.
C37_PersistOnMultipleOfTen ==
    (callArgs # <<>> /\ callArgs[1].enabled /\ callArgs[1].metrics # <<>>) =>
        /\ callResult[1].outcome.persist
              <=> (Len(callResult[1].outcome.patterns) % 10 = 0)
        /\ callResult[1].outcome.commit =>
              /\ callResult[1].outcome.persist
              /\ callArgs[1].git.enabled
              /\ callArgs[1].git.auto_commit

\* a quiet snapshot on an empty store is persisted and committed
C37_Witness ==
    /\ callArgs # <<>>
    /\ callArgs[1].enabled
    /\ callArgs[1].metrics # <<>>
    /\ callArgs[1].patterns = <<>>
    /\ callResult[1].outcome.patterns = <<>>
    /\ callResult[1].outcome.persist
    /\ callResult[1].outcome.commit

====
